---- MODULE Spec2Model ----
(***************************************************************************)
(* Model of the recommendation engine of the energy plan agent:           *)
(*   ContractAnalyzer      backend/app/services/contract_analyzer.py      *)
(*   ScoringEngine         backend/app/services/scoring.py                *)
(*   CostCalculator        backend/app/services/cost_calculator.py        *)
(*   RecommendationService backend/app/services/recommendation.py         *)
(*                                                                         *)
(* Money is kept in whole dollars in the contract analyzer and in cents   *)
(* in the cost calculator; scores are kept in 1/10000 (the code rounds     *)
(* every reported score to 4 places); weights and supplier ratings are    *)
(* kept in 1/100 (both columns are Numeric(3,2)).  Dates are day numbers. *)
(* Python's None is NoneVal for numbers and "None" for enum values.       *)
(***************************************************************************)
EXTENDS Integers, Sequences, FiniteSets, TLC

VARIABLES
    ca_in,       \* arguments of one analyze_switch_timing call
    analysis,    \* the ContractAnalysis it returned
    sc_in,       \* arguments of one score_plans call
    scored,      \* the list of scored plans it returned
    req,         \* one recommendation request: customer, catalog, preferences
    run,         \* locals and response of generate_recommendations
    cc_in,       \* arguments of the cost calculator calls
    cc_out,      \* what calculate_annual_cost and calculate_savings returned
    db,          \* database rows: customers, preferences, plans
    cache,       \* Redis keys: plans:all, plans:{id}, recommendations:{id}
    last,        \* the last API request and its response
    windows,     \* what get_switching_windows returned
    ing,         \* one ingestion call: the payload and the IngestionResult
    ua,          \* one usage analysis: the usage records and the result
    rl,          \* rate limiter: stored windows, requests in flight, log
    gen          \* recommendation requests in progress

vars == <<ca_in, analysis, sc_in, scored, req, run, cc_in, cc_out, db, cache, last, windows, ing, ua, rl, gen>>

\* Python None for an optional number or date
NoneVal == -1

----------------------------------------------------------------------------
(* Arithmetic helpers *)

\* Decimal.to_integral_value() / round(): ROUND_HALF_EVEN of n/d, n >= 0, d > 0
RoundHalfEven(n, d) ==
    LET q == n \div d
        r == n % d
    IN  IF 2 * r < d THEN q
        ELSE IF 2 * r > d THEN q + 1
        ELSE IF q % 2 = 0 THEN q ELSE q + 1

RECURSIVE Gcd(_, _)
\* greatest common divisor, used to keep exact fractions small
Gcd(a, b) == IF b = 0 THEN a ELSE Gcd(b, a % b)

Lcm(a, b) == (a \div Gcd(a, b)) * b

\* max() / min() of a non-empty collection of numbers
MaxOf(S) == CHOOSE x \in S : \A y \in S : y <= x
MinOf(S) == CHOOSE x \in S : \A y \in S : x <= y

RECURSIVE SeqSum(_)
\* sum() of a list of numbers
SeqSum(s) == IF s = <<>> THEN 0 ELSE s[1] + SeqSum(Tail(s))

\* the values a list holds
Range(s) == {s[i] : i \in 1..Len(s)}

\* Python truthiness of an optional number: None and 0 are both falsy
Truthy(x) == x # NoneVal /\ x # 0

----------------------------------------------------------------------------
(* ContractAnalyzer *)

MIN_ANNUAL_SAVINGS_THRESHOLD == 50
MAX_BREAK_EVEN_MONTHS == 18
MARGINAL_SAVINGS_THRESHOLD == 100

\* int((early_termination_fee / monthly_savings).to_integral_value()) + 1
BreakEvenMonths(early_termination_fee, monthly_savings) ==
    RoundHalfEven(early_termination_fee, monthly_savings) + 1

\* has_active_contract: current_contract_end and current_contract_end > today
HasActiveContract(current_contract_end, today) ==
    current_contract_end # NoneVal /\ current_contract_end > today

\* days_until_end = (current_contract_end - today).days, None without contract
DaysUntilEnd(current_contract_end, today) ==
    IF HasActiveContract(current_contract_end, today)
    THEN current_contract_end - today
    ELSE NoneVal

\* the dict _check_not_beneficial returns; hit = FALSE models "return None"
NotBeneficial(recommendation, reason, confidence, optimal_date, break_even_months) ==
    [hit |-> TRUE, recommendation |-> recommendation, reason |-> reason,
     confidence |-> confidence, optimal_date |-> optimal_date,
     break_even_months |-> break_even_months]

NotBeneficialNone ==
    [hit |-> FALSE, recommendation |-> "None", reason |-> "None",
     confidence |-> 100, optimal_date |-> NoneVal, break_even_months |-> NoneVal]

\* Scenario 5 guard: contract ends within two weeks and the fee exceeds
\* two_week_savings * 3 with two_week_savings = monthly_savings / 2
ContractEndingVerySoon(monthly_savings, early_termination_fee, has_active_contract, days_until_end) ==
    /\ has_active_contract
    /\ days_until_end # NoneVal /\ days_until_end # 0
    /\ days_until_end <= 14
    /\ early_termination_fee > 0
    /\ 2 * early_termination_fee > 3 * monthly_savings

\* a variant that tests the marginal-savings threshold before the fee gates
CheckNotBeneficialMarginalFirst(monthly_savings, annual_savings, early_termination_fee, has_active_contract, days_until_end, new_plan_contract_months, current_contract_end) ==
    IF monthly_savings <= 0 THEN
        NotBeneficial("not_beneficial", "new_plan_more_expensive", 100,
                      NoneVal, NoneVal)
    ELSE IF annual_savings < 50 THEN
        NotBeneficial("not_beneficial", "savings_too_small", 90,
                      NoneVal, NoneVal)
    ELSE IF annual_savings < 100 THEN
        NotBeneficial("marginal_benefit", "savings_too_small", 60,
                      NoneVal, NoneVal)
    ELSE IF /\ early_termination_fee > 0
            /\ early_termination_fee > annual_savings
            /\ BreakEvenMonths(early_termination_fee, monthly_savings) > 18 THEN
        NotBeneficial("not_beneficial", "etf_exceeds_annual_savings", 95,
                      NoneVal,
                      BreakEvenMonths(early_termination_fee, monthly_savings))
    ELSE IF /\ early_termination_fee > 0
            /\ monthly_savings > 0
            /\ BreakEvenMonths(early_termination_fee, monthly_savings)
                  > new_plan_contract_months THEN
        NotBeneficial("not_beneficial", "break_even_too_long", 85, NoneVal,
                      BreakEvenMonths(early_termination_fee, monthly_savings))
    ELSE IF ContractEndingVerySoon(monthly_savings, early_termination_fee,
                                   has_active_contract, days_until_end) THEN
        NotBeneficial("marginal_benefit", "contract_too_short", 70,
                      current_contract_end, NoneVal)
    ELSE NotBeneficialNone

CheckNotBeneficial(monthly_savings, annual_savings, early_termination_fee, has_active_contract, days_until_end, new_plan_contract_months, current_contract_end) ==
    \* Scenario 1: new plan is more expensive
    IF monthly_savings <= 0 THEN
        NotBeneficial("not_beneficial", "new_plan_more_expensive", 100,
                      NoneVal, NoneVal)
    \* Scenario 2: savings too small
    ELSE IF annual_savings < MIN_ANNUAL_SAVINGS_THRESHOLD THEN
        NotBeneficial("not_beneficial", "savings_too_small", 90,
                      NoneVal, NoneVal)
    \* Scenario 3: ETF exceeds annual savings
    ELSE IF /\ early_termination_fee > 0
            /\ early_termination_fee > annual_savings
            /\ BreakEvenMonths(early_termination_fee, monthly_savings)
                  > MAX_BREAK_EVEN_MONTHS THEN
        NotBeneficial("not_beneficial", "etf_exceeds_annual_savings", 95,
                      NoneVal,
                      BreakEvenMonths(early_termination_fee, monthly_savings))
    \* Scenario 4: break-even exceeds the new contract length
    ELSE IF /\ early_termination_fee > 0
            /\ monthly_savings > 0
            /\ BreakEvenMonths(early_termination_fee, monthly_savings)
                  > new_plan_contract_months THEN
        NotBeneficial("not_beneficial", "break_even_too_long", 85, NoneVal,
                      BreakEvenMonths(early_termination_fee, monthly_savings))
    \* Scenario 5: current contract ending very soon
    ELSE IF ContractEndingVerySoon(monthly_savings, early_termination_fee,
                                   has_active_contract, days_until_end) THEN
        NotBeneficial("marginal_benefit", "contract_too_short", 70,
                      current_contract_end, NoneVal)
    \* Scenario 6: marginal savings
    ELSE IF annual_savings < MARGINAL_SAVINGS_THRESHOLD THEN
        NotBeneficial("marginal_benefit", "savings_too_small", 60,
                      NoneVal, NoneVal)
    ELSE NotBeneficialNone

\* a variant that rounds the remaining months up instead of down
MonthsRemainingCeil(days_until_end) ==
    IF days_until_end # NoneVal /\ days_until_end # 0
    THEN (days_until_end + 29) \div 30
    ELSE 0

\* months_remaining = days_until_end // 30 if days_until_end else 0
MonthsRemaining(days_until_end) ==
    IF days_until_end # NoneVal /\ days_until_end # 0
    THEN days_until_end \div 30
    ELSE 0

\* the ContractAnalysis returned when _check_not_beneficial found a reason
NotBeneficialAnalysis(nb, has_active_contract, current_contract_end, days_until_end, early_termination_fee, monthly_savings, annual_savings) ==
    [status |-> "done",
     has_active_contract |-> has_active_contract,
     contract_end_date |-> current_contract_end,
     days_until_contract_end |-> days_until_end,
     early_termination_fee |-> early_termination_fee,
     switch_recommendation |-> nb.recommendation,
     optimal_switch_date |-> nb.optimal_date,
     break_even_months |-> nb.break_even_months,
     remaining_contract_cost |-> 0,
     new_plan_cost_same_period |-> 0,
     immediate_switch_savings |-> monthly_savings,
     wait_to_switch_savings |-> IF annual_savings > 0 THEN annual_savings ELSE 0,
     not_beneficial_reason |-> nb.reason,
     confidence_score |-> nb.confidence]

\* a variant that reports one month of savings and the customer's fee
NoContractAnalysisMonthly(current_contract_end, early_termination_fee, monthly_savings, today) ==
    [status |-> "done",
     has_active_contract |-> FALSE,
     contract_end_date |-> current_contract_end,
     days_until_contract_end |-> NoneVal,
     early_termination_fee |-> early_termination_fee,
     switch_recommendation |-> "switch_now",
     optimal_switch_date |-> today,
     break_even_months |-> 0,
     remaining_contract_cost |-> 0,
     new_plan_cost_same_period |-> 0,
     immediate_switch_savings |-> monthly_savings,
     wait_to_switch_savings |-> monthly_savings * 12,
     not_beneficial_reason |-> "None",
     confidence_score |-> 100]

\* the ContractAnalysis returned when there is no active contract
NoContractAnalysis(current_contract_end, early_termination_fee, monthly_savings, today) ==
    [status |-> "done",
     has_active_contract |-> FALSE,
     contract_end_date |-> current_contract_end,
     days_until_contract_end |-> NoneVal,
     early_termination_fee |-> 0,
     switch_recommendation |-> "switch_now",
     optimal_switch_date |-> today,
     break_even_months |-> 0,
     remaining_contract_cost |-> 0,
     new_plan_cost_same_period |-> 0,
     immediate_switch_savings |-> monthly_savings * 12,
     wait_to_switch_savings |-> monthly_savings * 12,
     not_beneficial_reason |-> "None",
     confidence_score |-> 100]

\* the ContractAnalysis returned for an active contract
ActiveContractAnalysis(current_contract_end, early_termination_fee, current_plan_monthly_cost, new_plan_monthly_cost, days_until_end, break_even_months, today) ==
    LET monthly_savings == current_plan_monthly_cost - new_plan_monthly_cost
        months_remaining == MonthsRemaining(days_until_end)
        remaining_contract_cost == current_plan_monthly_cost * months_remaining
        new_plan_cost_same_period == new_plan_monthly_cost * months_remaining
        immediate_switch_savings ==
            remaining_contract_cost - new_plan_cost_same_period
                - early_termination_fee
        ends_within_30 ==
            days_until_end # NoneVal /\ days_until_end # 0
                /\ days_until_end <= 30
    IN  [status |-> "done",
         has_active_contract |-> TRUE,
         contract_end_date |-> current_contract_end,
         days_until_contract_end |-> days_until_end,
         early_termination_fee |-> early_termination_fee,
         switch_recommendation |->
             IF immediate_switch_savings > 0
             THEN IF ends_within_30 THEN "switch_soon" ELSE "switch_now"
             ELSE "wait_for_contract_end",
         optimal_switch_date |->
             IF immediate_switch_savings > 0
             THEN IF ends_within_30 THEN current_contract_end ELSE today
             ELSE current_contract_end,
         break_even_months |-> break_even_months,
         remaining_contract_cost |-> remaining_contract_cost,
         new_plan_cost_same_period |-> new_plan_cost_same_period,
         immediate_switch_savings |-> immediate_switch_savings,
         wait_to_switch_savings |-> monthly_savings * 12,
         not_beneficial_reason |-> "None",
         confidence_score |-> 100]

AnalyzeSwitchTiming(current_contract_end, early_termination_fee, current_plan_monthly_cost, new_plan_monthly_cost, new_plan_contract_months, today) ==
    LET has_active_contract == HasActiveContract(current_contract_end, today)
        days_until_end == DaysUntilEnd(current_contract_end, today)
        monthly_savings == current_plan_monthly_cost - new_plan_monthly_cost
        annual_savings == monthly_savings * 12
        nb == CheckNotBeneficial(monthly_savings, annual_savings,
                                 early_termination_fee, has_active_contract,
                                 days_until_end, new_plan_contract_months,
                                 current_contract_end)
        break_even_months ==
            IF monthly_savings > 0 /\ early_termination_fee > 0
            THEN BreakEvenMonths(early_termination_fee, monthly_savings)
            ELSE NoneVal
    IN  IF nb.hit THEN
            NotBeneficialAnalysis(nb, has_active_contract,
                                  current_contract_end, days_until_end,
                                  early_termination_fee, monthly_savings,
                                  annual_savings)
        ELSE IF ~has_active_contract THEN
            NoContractAnalysis(current_contract_end, early_termination_fee,
                               monthly_savings, today)
        ELSE
            ActiveContractAnalysis(current_contract_end, early_termination_fee,
                                   current_plan_monthly_cost,
                                   new_plan_monthly_cost, days_until_end,
                                   break_even_months, today)

\* a variant that keeps contract_end - 60 days when it precedes today
GetSwitchingWindowsNoClamp(contract_end_date, today) ==
    LET active == contract_end_date # NoneVal /\ contract_end_date > today
    IN  [today |-> today,
         contract_end |-> contract_end_date,
         optimal_notice_date |->
             IF active THEN contract_end_date - 60 ELSE NoneVal,
         final_switch_date |->
             IF active THEN contract_end_date - 7 ELSE NoneVal]

\* get_switching_windows
GetSwitchingWindows(contract_end_date, today) ==
    LET active == contract_end_date # NoneVal /\ contract_end_date > today
        optimal_notice_date == contract_end_date - 60
    IN  [today |-> today,
         contract_end |-> contract_end_date,
         optimal_notice_date |->
             IF ~active THEN NoneVal
             ELSE IF optimal_notice_date < today THEN today
             ELSE optimal_notice_date,
         final_switch_date |->
             IF active THEN contract_end_date - 7 ELSE NoneVal]

----------------------------------------------------------------------------
(* CostCalculator.  kWh are whole numbers, rate_per_kwh is in 1/1000 dollar *)
(* per kWh, fees and costs are in cents.  The quotient total / months is    *)
(* exact for every usage series of UsageOptions, so Decimal's 28-digit      *)
(* division does not round there.                                           *)

\* a variant that does not annualize a series shorter than 12 months
CalculateAnnualCostNoAnnualize(usage_data, plan) ==
    IF usage_data = <<>> THEN 0
    ELSE RoundHalfEven(SeqSum(usage_data) * plan.rate_per_kwh
                         + plan.monthly_fee * 12 * 10, 10)

\* a variant that takes the monthly fees off the energy cost
CalculateAnnualCostLessFees(usage_data, plan) ==
    IF usage_data = <<>> THEN 0
    ELSE LET months == Len(usage_data)
             total == SeqSum(usage_data)
         IN  IF months < 12
             THEN RoundHalfEven(total * 12 * plan.rate_per_kwh
                                  - plan.monthly_fee * 12 * 10 * months,
                                10 * months)
             ELSE RoundHalfEven(total * plan.rate_per_kwh
                                  - plan.monthly_fee * 12 * 10, 10)

\* round(energy_cost + monthly_fees, 2): Decimal rounds half-even to cents
CalculateAnnualCost(usage_data, plan) ==
    IF usage_data = <<>> THEN 0
    ELSE LET months == Len(usage_data)
             total == SeqSum(usage_data)
         IN  IF months < 12
             THEN RoundHalfEven(total * 12 * plan.rate_per_kwh
                                  + plan.monthly_fee * 12 * 10 * months,
                                10 * months)
             ELSE RoundHalfEven(total * plan.rate_per_kwh
                                  + plan.monthly_fee * 12 * 10, 10)

\* calculate_all_costs: plan id -> cost details.  The usage statistics are
\* computed once before the loop over the plans; annual_kwh is total /
\* months * 12 for any number of months (a whole number of kWh for the
\* usage series of the model), avg_monthly_kwh is kept in 1/1000 kWh.
\* monthly_average and cost_per_kwh_effective, quotients of annual_cost,
\* are left out.
CalculateAllCosts(usage_data, plans) ==
    LET total_kwh == SeqSum(usage_data)
        months == Len(usage_data)
        avg_monthly == IF months > 0
                       THEN RoundHalfEven(total_kwh * 1000, months) ELSE 0
        annual_kwh == IF months > 0 THEN (total_kwh * 12) \div months ELSE 0
    IN  [id \in {plans[i].id : i \in 1..Len(plans)} |->
            LET plan == CHOOSE q \in Range(plans) : q.id = id
                annual_cost == CalculateAnnualCost(usage_data, plan)
            IN  [annual_cost |-> annual_cost,
                 breakdown |->
                     [energy_cost |->
                          IF months > 0
                          THEN RoundHalfEven(
                                   total_kwh * 12 * plan.rate_per_kwh,
                                   10 * months)
                          ELSE 0,
                      monthly_fees |-> plan.monthly_fee * 12,
                      total |-> annual_cost],
                 usage_stats |->
                     [total_kwh |-> total_kwh,
                      annual_kwh_projected |-> annual_kwh,
                      avg_monthly_kwh |-> avg_monthly,
                      months_of_data |-> months]]]

\* calculate_savings, money in cents.  switching_cost / (annual_savings / 12)
\* is taken as the exact quotient 12 * switching_cost / annual_savings, and
\* to_integral_value() rounds it half-even.
CalculateSavings(current_cost, new_cost, switching_cost) ==
    LET annual_savings == current_cost - new_cost
        first_year_net == annual_savings - switching_cost
    IN  [annual_savings |-> annual_savings,
         first_year_net_savings |-> first_year_net,
         switching_cost |-> switching_cost,
         break_even_months |->
             IF switching_cost > 0 /\ annual_savings > 0
             THEN RoundHalfEven(12 * switching_cost, annual_savings)
             ELSE NoneVal,
         five_year_savings |-> annual_savings * 5 - switching_cost,
         is_beneficial |-> first_year_net > 0]

----------------------------------------------------------------------------
(* ScoringEngine.  A score is an exact fraction <<numerator, denominator>>  *)
(* until the code rounds it; reported scores are in 1/10000.  float() and   *)
(* round(x, 4) are modelled on the exact value, rounding half-even.         *)

Frac(n, d) == LET g == Gcd(n, d) IN IF g = 0 THEN <<0, 1>> ELSE <<n \div g, d \div g>>

\* _normalize: higher is better
Normalize(value, min_val, max_val) ==
    IF max_val = min_val THEN <<1, 1>>
    ELSE Frac(value - min_val, max_val - min_val)

\* _normalize_inverse: lower is better
NormalizeInverse(value, min_val, max_val) ==
    IF max_val = min_val THEN <<1, 1>>
    ELSE Frac(max_val - value, max_val - min_val)

\* round(score, 4)
Round4(f) == RoundHalfEven(10000 * f[1], f[2])

\* rating_values: float(rating) if supplier and rating else 0.0
RatingForMax(plan) == IF Truthy(plan.rating) THEN plan.rating ELSE 0

\* supplier_rating: float(rating) if supplier and rating else 3.0
SupplierRating(plan) == IF Truthy(plan.rating) THEN plan.rating ELSE 300

\* float(weight or Decimal("0.25")): None and 0 both become 0.25
EffectiveWeight(w) == IF Truthy(w) THEN w ELSE 25

\* round(w_cost * cost + w_flex * flex + w_renew * renew + w_rating * rating, 4)
WeightedSum4(wc, wf, wr, wt, c, f, r, t) ==
    LET L == Lcm(Lcm(c[2], f[2]), Lcm(r[2], t[2]))
        num == wc * c[1] * (L \div c[2]) + wf * f[1] * (L \div f[2])
                 + wr * r[1] * (L \div r[2]) + wt * t[1] * (L \div t[2])
    IN  RoundHalfEven(100 * num, L)

\* the four individual scores of one plan, before rounding
ComponentScores(plan, plans, costs) ==
    LET cost_values == {costs[plans[i].id].annual_cost : i \in 1..Len(plans)}
        contract_lengths == {plans[i].contract_length_months : i \in 1..Len(plans)}
        max_renewable == MaxOf({plans[i].renewable_percentage : i \in 1..Len(plans)})
        max_rating == MaxOf({RatingForMax(plans[i]) : i \in 1..Len(plans)})
    IN  [cost_score |->
             NormalizeInverse(costs[plan.id].annual_cost,
                              MinOf(cost_values), MaxOf(cost_values)),
         flexibility_score |->
             NormalizeInverse(plan.contract_length_months,
                              MinOf(contract_lengths), MaxOf(contract_lengths)),
         renewable_score |->
             Normalize(plan.renewable_percentage, 0,
                       IF max_renewable > 0 THEN max_renewable ELSE 100),
         rating_score |->
             Normalize(SupplierRating(plan), 0,
                       IF max_rating > 0 THEN max_rating ELSE 500)]

\* the dict score_plans appends for one plan
ScoreOnePlan(plan, plans, costs, preferences) ==
    LET c == ComponentScores(plan, plans, costs)
        cost_weight == EffectiveWeight(preferences.cost_savings_weight)
        flexibility_weight == EffectiveWeight(preferences.flexibility_weight)
        renewable_weight == EffectiveWeight(preferences.renewable_weight)
        rating_weight == EffectiveWeight(preferences.supplier_rating_weight)
    IN  [plan |-> plan,
         plan_id |-> plan.id,
         cost_score |-> Round4(c.cost_score),
         flexibility_score |-> Round4(c.flexibility_score),
         renewable_score |-> Round4(c.renewable_score),
         rating_score |-> Round4(c.rating_score),
         overall_score |-> WeightedSum4(cost_weight, flexibility_weight,
                                        renewable_weight, rating_weight,
                                        c.cost_score, c.flexibility_score,
                                        c.renewable_score, c.rating_score),
         weights_applied |-> [cost |-> cost_weight,
                              flexibility |-> flexibility_weight,
                              renewable |-> renewable_weight,
                              rating |-> rating_weight]]

\* score_plans: one dict per plan, in the order of plans; [] for no plans
ScorePlans(plans, costs, preferences) ==
    [i \in 1..Len(plans) |-> ScoreOnePlan(plans[i], plans, costs, preferences)]

----------------------------------------------------------------------------
(* RecommendationService *)

\* a variant that tests the rate type before the contract length
FilterCodeRateFirst(plan, preferences) ==
    IF plan.renewable_percentage < preferences.min_renewable_percentage
    THEN "LOW_RENEWABLE"
    ELSE IF /\ preferences.avoid_variable_rates
            /\ plan.rate_type \in {"variable", "indexed"}
    THEN "VARIABLE_RATE"
    ELSE IF /\ Truthy(preferences.max_contract_months)
            /\ plan.contract_length_months > preferences.max_contract_months
    THEN "LONG_CONTRACT"
    ELSE "None"

\* the body of the loop of _filter_by_constraints: the filter_code of the
\* first failing constraint, "None" when the plan is eligible
FilterCode(plan, preferences) ==
    IF plan.renewable_percentage < preferences.min_renewable_percentage
    THEN "LOW_RENEWABLE"
    ELSE IF /\ Truthy(preferences.max_contract_months)
            /\ plan.contract_length_months > preferences.max_contract_months
    THEN "LONG_CONTRACT"
    ELSE IF /\ preferences.avoid_variable_rates
            /\ plan.rate_type \in {"variable", "indexed"}
    THEN "VARIABLE_RATE"
    ELSE "None"

\* plan.renewable_percentage < preferences.min_renewable_percentage raises
\* TypeError for the first plan when the preference attribute is None
FilterRaises(plans, preferences) ==
    plans # <<>> /\ preferences.min_renewable_percentage = NoneVal

RECURSIVE FilterLoop(_, _, _, _, _)
\* for plan in plans: append to filtered_out (continue) or to eligible
FilterLoop(plans, preferences, i, eligible, filtered_out) ==
    IF i > Len(plans) THEN [eligible |-> eligible, filtered_out |-> filtered_out]
    ELSE LET code == FilterCode(plans[i], preferences)
         IN  IF code # "None"
             THEN FilterLoop(plans, preferences, i + 1, eligible,
                             Append(filtered_out,
                                    [plan_id |-> plans[i].id,
                                     filter_code |-> code]))
             ELSE FilterLoop(plans, preferences, i + 1,
                             Append(eligible, plans[i]), filtered_out)

FilterByConstraints(plans, preferences) ==
    FilterLoop(plans, preferences, 1, <<>>, <<>>)

\* where sorted(..., reverse=True) puts x among already sorted dicts: after
\* every dict whose overall_score is not smaller (the sort is stable)
InsertByScore(sorted, x) ==
    LET k == Cardinality({i \in 1..Len(sorted) :
                             sorted[i].overall_score >= x.overall_score})
    IN  SubSeq(sorted, 1, k) \o <<x>> \o SubSeq(sorted, k + 1, Len(sorted))

RECURSIVE SortedByScore(_)
\* sorted(scored_plans, key=lambda x: x["overall_score"], reverse=True)
SortedByScore(s) ==
    IF s = <<>> THEN <<>>
    ELSE InsertByScore(SortedByScore(SubSeq(s, 1, Len(s) - 1)), s[Len(s)])

\* a variant that takes the first three scored plans without sorting them
Top3Unsorted(scored_plans) ==
    SubSeq(scored_plans, 1, IF Len(scored_plans) < 3 THEN Len(scored_plans) ELSE 3)

\* top_3 = sorted(...)[:3]
Top3(scored_plans) ==
    LET s == SortedByScore(scored_plans)
    IN  SubSeq(s, 1, IF Len(s) < 3 THEN Len(s) ELSE 3)

\* a variant that charges the fee although the contract has ended
CalculateSwitchingCostIgnoreEnd(customer, include_analysis, today) ==
    IF ~include_analysis THEN 0
    ELSE IF ~Truthy(customer.early_termination_fee) THEN 0
    ELSE customer.early_termination_fee

\* _calculate_switching_cost
CalculateSwitchingCost(customer, include_analysis, today) ==
    IF ~include_analysis THEN 0
    ELSE IF ~Truthy(customer.early_termination_fee) THEN 0
    ELSE IF /\ customer.contract_end_date # NoneVal
            /\ customer.contract_end_date <= today THEN 0
    ELSE customer.early_termination_fee

\* a variant without the warning about fewer than 3 eligible plans
GenerateWarningsNoFewPlans(customer, all_plans, eligible_plans) ==
    (IF Len(customer.usage_data) < 12 THEN <<"few_months">> ELSE <<>>)
    \o (IF Len(all_plans) - Len(eligible_plans) > Len(eligible_plans)
        THEN <<"mostly_filtered">> ELSE <<>>)

\* _generate_warnings: which of the three warnings are raised, in order
GenerateWarnings(customer, all_plans, eligible_plans) ==
    (IF Len(eligible_plans) < 3 THEN <<"few_plans">> ELSE <<>>)
    \o (IF Len(customer.usage_data) < 12 THEN <<"few_months">> ELSE <<>>)
    \o (IF Len(all_plans) - Len(eligible_plans) > Len(eligible_plans)
        THEN <<"mostly_filtered">> ELSE <<>>)

\* EnergyPlanResponse.default_decimal_fields: a None fee is reported as 0.00
EnergyPlanResponse(plan) ==
    [plan EXCEPT !.early_termination_fee =
                    IF @ = NoneVal THEN 0 ELSE @]

\* Python None for an optional object or a missing cache key
Nothing == [none |-> TRUE]

\* CustomerPreference(customer_id=customer_id): the column defaults are
\* INSERT defaults, so every attribute of the unsaved object is None
DefaultPreferences ==
    [cost_savings_weight |-> NoneVal, flexibility_weight |-> NoneVal,
     renewable_weight |-> NoneVal, supplier_rating_weight |-> NoneVal,
     min_renewable_percentage |-> NoneVal, max_contract_months |-> NoneVal,
     avoid_variable_rates |-> NoneVal]

\* _get_preferences: the override, else the stored row, else the defaults
GetPreferences(override, stored) ==
    IF override # Nothing THEN override
    ELSE IF stored # Nothing THEN stored
    ELSE DefaultPreferences

\* generate_recommendations.  store_plans is what get_plan_by_id can find.
\* Risk flags, explanation texts and the usage analysis are not modelled.
GenerateRecommendations(customer, preferences, plans, include_switching_analysis, store_plans, today) ==
    LET filtered == FilterByConstraints(plans, preferences)
        eligible_plans == filtered.eligible
        plan_costs == CalculateAllCosts(customer.usage_data, eligible_plans)
        current_cost ==
            IF /\ customer.current_plan_id # NoneVal
               /\ \E q \in store_plans : q.id = customer.current_plan_id
            THEN CalculateAnnualCost(customer.usage_data,
                     CHOOSE q \in store_plans : q.id = customer.current_plan_id)
            ELSE NoneVal
        scored_plans == ScorePlans(eligible_plans, plan_costs, preferences)
        top_3 == Top3(scored_plans)
        switching_cost ==
            CalculateSwitchingCost(customer, include_switching_analysis, today)
        recommendations ==
            [rank \in 1..Len(top_3) |->
                LET sp == top_3[rank]
                    cost == plan_costs[sp.plan.id].annual_cost
                    savings == IF Truthy(current_cost)
                               THEN current_cost - cost ELSE 0
                IN  [id |-> sp.plan.id,
                     rank |-> rank,
                     plan |-> EnergyPlanResponse(sp.plan),
                     overall_score |-> sp.overall_score,
                     cost_score |-> sp.cost_score,
                     flexibility_score |-> sp.flexibility_score,
                     renewable_score |-> sp.renewable_score,
                     rating_score |-> sp.rating_score,
                     projected_annual_cost |-> cost,
                     projected_annual_savings |-> savings,
                     switching_cost |-> switching_cost,
                     net_first_year_savings |-> savings - switching_cost]]
    IN  IF FilterRaises(plans, preferences)
        THEN [status |-> "error", error |-> "TypeError"]
        ELSE
        [status |-> "done",
         plans |-> plans,
         eligible_plans |-> eligible_plans,
         scored_plans |-> scored_plans,
         response |->
            [recommendations |-> recommendations,
             filtered_plans |-> filtered.filtered_out,
             current_annual_cost |-> current_cost,
             best_savings |->
                 IF recommendations # <<>>
                 THEN MaxOf({recommendations[i].projected_annual_savings :
                                i \in 1..Len(recommendations)})
                 ELSE 0,
             warnings |-> GenerateWarnings(customer, plans, eligible_plans)]]

----------------------------------------------------------------------------
(* Inputs *)

\* today's date as a day number
Today == 40
\* the contract end date ranges from before today to MaxDaysAhead days ahead
MaxDaysAhead == 185
DaysBehind == 31
\* the longest plan list of a request
MaxCatalog == 4

ContractEnds == {NoneVal} \cup ((Today - DaysBehind) .. (Today + MaxDaysAhead))
Fees == {0, 25, 100, 150, 200, 400}
CurrentCosts == {100, 150}
NewCosts == {50, 80, 90, 92, 95, 97, 100, 110}
NewContractMonths == {1, 6, 12, 24}

\* EnergyPlan rows with their supplier's rating (NoneVal: no supplier rating)
EnergyPlan(id, rate_type, rate_per_kwh, monthly_fee, contract_length_months, renewable_percentage, early_termination_fee, rating) ==
    [id |-> id, rate_type |-> rate_type, rate_per_kwh |-> rate_per_kwh,
     monthly_fee |-> monthly_fee,
     contract_length_months |-> contract_length_months,
     renewable_percentage |-> renewable_percentage,
     early_termination_fee |-> early_termination_fee, rating |-> rating]

StorePlans ==
    { EnergyPlan(1, "fixed",        80, 1000, 24,  10, 15000, 450),
      EnergyPlan(2, "fixed",        80, 1000, 36,   0, 20000, 420),
      EnergyPlan(3, "variable",    100,    0,  1,  50,     0, NoneVal),
      EnergyPlan(4, "indexed",     100,    0, 12,  20,     0, 200),
      EnergyPlan(5, "time_of_use", 110, 1000,  6,  10,  5000, NoneVal),
      EnergyPlan(6, "fixed",       120,  500, 12, 100, 10000, 450),
      EnergyPlan(7, "fixed",        70, 3000, 12,  10,  5000, 450) }

\* lists of distinct plans of at most MaxCatalog entries
PlanLists ==
    {s \in UNION {[1..n -> StorePlans] : n \in 0..MaxCatalog} :
        \A i, j \in 1..Len(s) : i # j => s[i].id # s[j].id}

\* PlanRepository.get_all orders the active plans by rate_per_kwh
Catalogs ==
    {s \in PlanLists :
        \A i \in 1..Len(s) - 1 : s[i].rate_per_kwh <= s[i + 1].rate_per_kwh}

\* CustomerPreference: weights in 1/100, NoneVal when unset
CustomerPreference(w, min_renewable_percentage, max_contract_months, avoid_variable_rates) ==
    [cost_savings_weight |-> w[1], flexibility_weight |-> w[2],
     renewable_weight |-> w[3], supplier_rating_weight |-> w[4],
     min_renewable_percentage |-> min_renewable_percentage,
     max_contract_months |-> max_contract_months,
     avoid_variable_rates |-> avoid_variable_rates]

\* preferences of a request: an override or a stored row (all fields set)
RequestPreferences ==
    {CustomerPreference(w, r, m, a) :
        w \in {<<40, 20, 20, 20>>, <<10, 10, 70, 10>>},
        r \in {0, 10, 50}, m \in {NoneVal, 6, 12, 24}, a \in BOOLEAN}

\* preferences handed to score_plans directly: weights may be unset or 0
ScoringPreferences ==
    {CustomerPreference(w, 0, NoneVal, FALSE) :
        w \in {<<40, 20, 20, 20>>, <<25, 25, 25, 25>>, <<70, 10, 10, 10>>,
               <<100, 0, 0, 0>>, <<0, 0, 50, 50>>,
               <<NoneVal, NoneVal, NoneVal, NoneVal>>}}

\* usage series (kWh per month)
UsageOptions ==
    { [i \in 1..12 |-> 1000], [i \in 1..6 |-> 1000], [i \in 1..3 |-> 500] }

Customers ==
    { [usage_data |-> [i \in 1..12 |-> 1000], current_plan_id |-> 6,
       contract_end_date |-> Today + 60, early_termination_fee |-> 15000],
      [usage_data |-> [i \in 1..6 |-> 1000], current_plan_id |-> NoneVal,
       contract_end_date |-> NoneVal, early_termination_fee |-> NoneVal],
      [usage_data |-> [i \in 1..3 |-> 500], current_plan_id |-> 5,
       contract_end_date |-> Today - 1, early_termination_fee |-> 10000],
      [usage_data |-> [i \in 1..12 |-> 1000], current_plan_id |-> 1,
       contract_end_date |-> NoneVal, early_termination_fee |-> 5000],
      [usage_data |-> [i \in 1..12 |-> 1000], current_plan_id |-> 2,
       contract_end_date |-> Today, early_termination_fee |-> 7500] }

Idle == [status |-> "idle"]
NoAnalysis == Idle

----------------------------------------------------------------------------
(* ContractAnalyzer.analyze_switch_timing as a call on drawn arguments *)

ContractInit ==
    /\ ca_in \in [current_contract_end : ContractEnds,
                  early_termination_fee : Fees,
                  current_plan_monthly_cost : CurrentCosts,
                  new_plan_monthly_cost : NewCosts,
                  new_plan_contract_months : NewContractMonths,
                  today : {Today}]
    /\ analysis = NoAnalysis
    /\ sc_in = Idle /\ scored = Idle /\ req = Idle /\ run = Idle
    /\ cc_in = Idle /\ cc_out = Idle /\ db = Idle /\ cache = Idle /\ last = Idle
    /\ windows = Idle /\ ing = Idle /\ ua = Idle /\ rl = Idle /\ gen = Idle

AnalyzeSwitchTimingCall ==
    /\ analysis = NoAnalysis
    /\ analysis' = AnalyzeSwitchTiming(ca_in.current_contract_end,
                                       ca_in.early_termination_fee,
                                       ca_in.current_plan_monthly_cost,
                                       ca_in.new_plan_monthly_cost,
                                       ca_in.new_plan_contract_months,
                                       ca_in.today)
    /\ UNCHANGED <<ca_in, sc_in, scored, req, run, cc_in, cc_out, db, cache, last, windows, ing, ua, rl, gen>>

GetSwitchingWindowsCall ==
    /\ windows = Idle
    /\ windows' = GetSwitchingWindows(ca_in.current_contract_end, ca_in.today)
    /\ UNCHANGED <<ca_in, analysis, sc_in, scored, req, run, cc_in, cc_out, db, cache, last, ing, ua, rl, gen>>

ContractNext == AnalyzeSwitchTimingCall \/ GetSwitchingWindowsCall

SpecContract == ContractInit /\ [][ContractNext]_vars

----------------------------------------------------------------------------
(* ScoringEngine.score_plans as a call on drawn arguments *)

ScoreInit ==
    /\ sc_in \in [plans : PlanLists, usage_data : UsageOptions,
                  preferences : ScoringPreferences]
    /\ scored = Idle
    /\ ca_in = Idle /\ analysis = Idle /\ req = Idle /\ run = Idle
    /\ cc_in = Idle /\ cc_out = Idle /\ db = Idle /\ cache = Idle /\ last = Idle
    /\ windows = Idle /\ ing = Idle /\ ua = Idle /\ rl = Idle /\ gen = Idle

ScorePlansCall ==
    /\ scored = Idle
    /\ scored' = [status |-> "done",
                  plans |-> ScorePlans(sc_in.plans,
                                CalculateAllCosts(sc_in.usage_data, sc_in.plans),
                                sc_in.preferences)]
    /\ UNCHANGED <<ca_in, analysis, sc_in, req, run, cc_in, cc_out, db, cache, last, windows, ing, ua, rl, gen>>

ScoreNext == ScorePlansCall

SpecScore == ScoreInit /\ [][ScoreNext]_vars

----------------------------------------------------------------------------
(* RecommendationService.generate_recommendations on a drawn request *)

RecInit ==
    /\ req \in [customer : Customers, preferences : RequestPreferences,
                plans : Catalogs, include_switching_analysis : BOOLEAN]
    /\ run = Idle
    /\ ca_in = Idle /\ analysis = Idle /\ sc_in = Idle /\ scored = Idle
    /\ cc_in = Idle /\ cc_out = Idle /\ db = Idle /\ cache = Idle /\ last = Idle
    /\ windows = Idle /\ ing = Idle /\ ua = Idle /\ rl = Idle /\ gen = Idle

GenerateRecommendationsCall ==
    /\ run = Idle
    /\ run' = GenerateRecommendations(req.customer, req.preferences, req.plans,
                                      req.include_switching_analysis,
                                      StorePlans, Today)
    /\ UNCHANGED <<ca_in, analysis, sc_in, scored, req, cc_in, cc_out, db, cache, last, windows, ing, ua, rl, gen>>

RecNext == GenerateRecommendationsCall

Spec == RecInit /\ [][RecNext]_vars

----------------------------------------------------------------------------
(* CostCalculator.calculate_annual_cost and calculate_savings as calls on   *)
(* drawn arguments                                                          *)

\* usage series of 0 to 13 months (kWh per month)
CostUsage ==
    { <<>>, [i \in 1..12 |-> 1000], [i \in 1..6 |-> 1000],
      [i \in 1..3 |-> 500], [i \in 1..12 |-> IF i % 2 = 0 THEN 900 ELSE 1100],
      [i \in 1..12 |-> IF i = 1 THEN 1005 ELSE 1000], [i \in 1..4 |-> 250 * i],
      [i \in 1..3 |-> IF i = 3 THEN 501 ELSE 500], [i \in 1..13 |-> 1000] }

\* the two columns of a plan that calculate_annual_cost reads
CostPlans ==
    [rate_per_kwh : {81, 100, 125}, monthly_fee : {0, 995, 1000}]

\* annual costs and switching costs in cents
SavingsCurrentCosts == {120000, 150000}
SavingsNewCosts == {90000, 120000, 126000, 139900}
SwitchingCosts == {0, 9000, 10000, 20000}

CostInit ==
    /\ cc_in \in [usage_data : CostUsage, plan : CostPlans,
                  current_cost : SavingsCurrentCosts,
                  new_cost : SavingsNewCosts,
                  switching_cost : SwitchingCosts]
    /\ cc_out = [annual |-> Idle, savings |-> Idle, all |-> Idle]
    /\ ca_in = Idle /\ analysis = Idle /\ sc_in = Idle /\ scored = Idle
    /\ req = Idle /\ run = Idle /\ db = Idle /\ cache = Idle /\ last = Idle
    /\ windows = Idle /\ ing = Idle /\ ua = Idle /\ rl = Idle /\ gen = Idle

CalculateAnnualCostCall ==
    /\ cc_out.annual = Idle
    /\ cc_out' = [cc_out EXCEPT !.annual =
                   [status |-> "done",
                    annual_cost |-> CalculateAnnualCost(cc_in.usage_data,
                                                        cc_in.plan)]]
    /\ UNCHANGED <<ca_in, analysis, sc_in, scored, req, run, cc_in, db, cache, last, windows, ing, ua, rl, gen>>

CalculateSavingsCall ==
    /\ cc_out.savings = Idle
    /\ cc_out' = [cc_out EXCEPT !.savings =
                   [status |-> "done",
                    result |-> CalculateSavings(cc_in.current_cost,
                                                cc_in.new_cost,
                                                cc_in.switching_cost)]]
    /\ UNCHANGED <<ca_in, analysis, sc_in, scored, req, run, cc_in, db, cache, last, windows, ing, ua, rl, gen>>

\* the plan list of a calculate_all_costs call: the plan of the call and
\* one more plan
CostPlanList(plan) ==
    << [id |-> 1, rate_per_kwh |-> plan.rate_per_kwh,
        monthly_fee |-> plan.monthly_fee],
       [id |-> 2, rate_per_kwh |-> 125, monthly_fee |-> 995] >>

CalculateAllCostsCall ==
    /\ cc_out.all = Idle
    /\ cc_out' = [cc_out EXCEPT !.all =
                   [status |-> "done",
                    costs |-> CalculateAllCosts(cc_in.usage_data,
                                                CostPlanList(cc_in.plan))]]
    /\ UNCHANGED <<ca_in, analysis, sc_in, scored, req, run, cc_in, db, cache, last, windows, ing, ua, rl, gen>>

CostNext ==
    \/ CalculateAnnualCostCall
    \/ CalculateSavingsCall
    \/ CalculateAllCostsCall

SpecCost == CostInit /\ [][CostNext]_vars

----------------------------------------------------------------------------
(* DataIngestionService (services/ingestion.py).  A CSV cell is a string,   *)
(* a JSON value is [type, value] with type "int", "str" or "null"; a parsed *)
(* date is <<year, month, day>>, a parsed quantity a whole number of kWh.   *)
(* A call that ends with an uncaught exception returns                      *)
(* [status |-> "raised", error |-> the exception].                          *)

\* a JSON or CSV value: a string, a number or None
Text(s) == [type |-> "str", text |-> s, number |-> 0]
Num(n) == [type |-> "int", text |-> "", number |-> n]
Null == [type |-> "null", text |-> "", number |-> 0]

\* Python truthiness of a value: None, "" and 0 are false
TruthyValue(v) ==
    CASE v.type = "str" -> v.text # ""
      [] v.type = "int" -> v.number # 0
      [] OTHER -> FALSE

\* UsageDataRow.parse_date: a string is tried with strptime under %Y-%m-%d,
\* %m/%d/%Y, %d/%m/%Y and %Y/%m/%d in turn (given here for the date texts
\* of the model); <<>> stands for ValueError
ParseDate(v) ==
    IF v.type # "str" THEN <<>>
    ELSE CASE v.text = "2024-01-01" -> <<2024, 1, 1>>
           [] v.text = "03/01/2024" -> <<2024, 3, 1>>
           [] OTHER -> <<>>

\* UsageDataRow.parse_kwh: Decimal(str(v)) of a number, Decimal of a string
\* without commas and blanks (given here for the quantity texts of the
\* model); <<>> stands for ValueError, else <<kWh>>
ParseKwh(v) ==
    IF v.type = "int" THEN <<v.number>>
    ELSE IF v.type # "str" THEN <<>>
    ELSE CASE v.text = "950" -> <<950>>
           [] v.text = "0" -> <<0>>
           [] v.text = "-5" -> <<-5>>
           [] v.text = "2,850" -> <<2850>>
           [] OTHER -> <<>>

\* UsageDataRow(usage_date=..., kwh_usage=...), kwh_usage with Field(ge=0):
\* the validated row, or [error |-> TRUE] for the ValueError it raises
UsageDataRow(date_val, usage_val) ==
    IF ParseDate(date_val) = <<>> \/ ParseKwh(usage_val) = <<>>
    THEN [error |-> TRUE]
    ELSE IF ParseKwh(usage_val)[1] < 0
    THEN [error |-> TRUE]
    ELSE [error |-> FALSE, usage_date |-> ParseDate(date_val),
          kwh_usage |-> ParseKwh(usage_val)[1]]

\* months between two dates as _validate_data_quality counts them
MonthDiff(prev_date, curr_date) ==
    (curr_date[1] - prev_date[1]) * 12 + (curr_date[2] - prev_date[2])

\* date order of two <<year, month, day>> values
DateBefore(a, b) ==
    \/ a[1] < b[1]
    \/ a[1] = b[1] /\ a[2] < b[2]
    \/ a[1] = b[1] /\ a[2] = b[2] /\ a[3] < b[3]

\* the dates of records in ascending order (equal dates count once each)
RECURSIVE SortedDates(_)
SortedDates(dates) ==
    IF dates = <<>> THEN <<>>
    ELSE LET i == CHOOSE k \in 1..Len(dates) :
                     \A j \in 1..Len(dates) : ~DateBefore(dates[j], dates[k])
         IN  <<dates[i]>> \o
             SortedDates([k \in 1..Len(dates) - 1 |->
                             IF k < i THEN dates[k] ELSE dates[k + 1]])

\* _validate_data_quality.  The scan for unusual values compares
\* record.kwh_usage > avg_usage * 3 and, when that is false, evaluates
\* avg_usage * 0.2: Decimal times float, which raises TypeError.
ValidateDataQuality(records) ==
    LET n == Len(records)
        total == SeqSum([i \in 1..n |-> records[i].kwh_usage])
        \* kwh_usage > avg_usage * 3, with avg_usage = total / n
        High(i) == records[i].kwh_usage * n > total * 3
        sorted == SortedDates([i \in 1..n |-> records[i].usage_date])
        count_warnings == IF n < 3 THEN <<"below_minimum">>
                          ELSE IF n < 12 THEN <<"below_recommended">>
                          ELSE <<>>
        gap_warnings ==
            SelectSeq([i \in 1..n - 1 |->
                          IF MonthDiff(sorted[i], sorted[i + 1]) > 1
                          THEN "gap" ELSE "none"],
                      LAMBDA w : w = "gap")
        warnings == count_warnings \o gap_warnings \o [i \in 1..n |-> "high"]
    IN  IF \E i \in 1..n : ~High(i)
        THEN [raised |-> TRUE, error |-> "TypeError"]
        ELSE [raised |-> FALSE,
              warnings |-> SubSeq(warnings, 1, MinOf({5, Len(warnings)}))]

\* the end of parse_csv and parse_json: outcomes holds, per processed row,
\* [error |-> TRUE] or the validated row
Finish(outcomes) ==
    LET usage_records == SelectSeq(outcomes, LAMBDA o : ~o.error)
        failed == {i \in 1..Len(outcomes) : outcomes[i].error}
        quality == IF usage_records # <<>>
                   THEN ValidateDataQuality(usage_records)
                   ELSE [raised |-> FALSE, warnings |-> <<>>]
    IN  IF quality.raised
        THEN [status |-> "raised", error |-> quality.error]
        ELSE [status |-> "returned",
              usage_records |->
                  [i \in 1..Len(usage_records) |->
                      [usage_date |-> usage_records[i].usage_date,
                       kwh_usage |-> usage_records[i].kwh_usage]],
              result |-> [success |-> Len(usage_records) > 0,
                          records_processed |-> Len(usage_records),
                          records_failed |-> Cardinality(failed),
                          errors |-> {i \in failed :
                                         Cardinality({j \in failed : j <= i}) <= 10},
                          warnings |-> quality.warnings]]

\* f.lower().strip() on the column names of the model
LowerStrip(name) ==
    CASE name = "Date" -> "date"
      [] name = " kWh " -> "kwh"
      [] OTHER -> name

\* _find_column: the preferred name, else the first alternative present
FindColumn(fieldnames, preferred, alternatives) ==
    IF \E i \in 1..Len(fieldnames) : fieldnames[i] = preferred
    THEN preferred
    ELSE IF \E a \in 1..Len(alternatives) :
               \E i \in 1..Len(fieldnames) : fieldnames[i] = alternatives[a]
    THEN alternatives[CHOOSE a \in 1..Len(alternatives) :
             /\ \E i \in 1..Len(fieldnames) : fieldnames[i] = alternatives[a]
             /\ \A b \in 1..a - 1 :
                   \A i \in 1..Len(fieldnames) : fieldnames[i] # alternatives[b]]
    ELSE "None"

\* the failure results parse_csv returns before it reads a row
EarlyFailure(error) ==
    [status |-> "returned", usage_records |-> <<>>,
     result |-> [success |-> FALSE, records_processed |-> 0,
                 records_failed |-> 0, errors |-> error, warnings |-> <<>>]]

\* the value DictReader gives a column of a row: None for a short row
Cell(fieldnames, row, column) ==
    LET i == CHOOSE k \in 1..Len(fieldnames) :
                 /\ fieldnames[k] = column
                 /\ \A j \in k + 1..Len(fieldnames) : fieldnames[j] # column
    IN  IF i <= Len(row) THEN Text(row[i]) ELSE Null

\* parse_csv(csv_content) with the default column names; header is the
\* first line (<<>> for empty content), rows the lines after it, each a
\* list of cells.  DictReader files the cells beyond the header under the
\* key None, on which k.lower() raises AttributeError.
ParseCsv(header, rows) ==
    LET fieldnames == [i \in 1..Len(header) |-> LowerStrip(header[i])]
        date_col == FindColumn(fieldnames, "date",
                               <<"date", "month", "period">>)
        usage_col == FindColumn(fieldnames, "kwh",
                        <<"kwh", "usage", "consumption", "kwh_usage">>)
        Row(row) ==
            LET date_val == Cell(fieldnames, row, date_col)
                usage_val == Cell(fieldnames, row, usage_col)
            IN  IF ~TruthyValue(date_val) \/ ~TruthyValue(usage_val)
                THEN [error |-> TRUE]
                ELSE UsageDataRow(date_val, usage_val)
    IN  IF header = <<>> THEN EarlyFailure({"empty"})
        ELSE IF date_col = "None" \/ usage_col = "None"
        THEN EarlyFailure({c \in {"date", "usage"} :
                              \/ c = "date" /\ date_col = "None"
                              \/ c = "usage" /\ usage_col = "None"})
        ELSE IF \E i \in 1..Len(rows) : Len(rows[i]) > Len(header)
        THEN [status |-> "raised", error |-> "AttributeError"]
        ELSE Finish([i \in 1..Len(rows) |-> Row(rows[i])])

\* parse_json(data); an item has the keys "date" and "kwh", Null standing
\* for a key that is absent.  "a or b or c or d" over the four accepted
\* names gives the value when it is truthy and None otherwise.
ParseJson(data) ==
    LET FirstTruthy(v) == IF TruthyValue(v) THEN v ELSE Null
        Item(item) ==
            LET date_val == FirstTruthy(item.date)
                usage_val == FirstTruthy(item.kwh)
            IN  IF date_val = Null \/ usage_val = Null
                THEN [error |-> TRUE]
                ELSE UsageDataRow(date_val, usage_val)
    IN  Finish([i \in 1..Len(data) |-> Item(data[i])])

----------------------------------------------------------------------------
(* DataIngestionService.parse_csv and parse_json as calls on a drawn payload *)

\* the most data rows of a payload
MaxRows == 3

CsvHeaders ==
    { <<"date", "kwh">>, <<"Date", " kWh ">>, <<"month", "consumption">>,
      <<"name", "value">>, <<"date", "value">>, <<>> }

\* data rows: two cells, a short row, rows with an empty cell, and a row
\* whose unquoted quantity 2,850 splits into a third cell
CsvRows ==
    { <<d, k>> : d \in {"2024-01-01", "03/01/2024", "invalid-date"},
                 k \in {"950", "0", "-5", "2,850", "not-a-number"} }
    \cup { <<"2024-01-01">>, <<"", "950">>, <<"2024-01-01", "">>,
           <<"2024-01-01", "2", "850">> }

JsonItems ==
    [date : {Text("2024-01-01"), Text("03/01/2024"), Text("invalid-date"),
             Num(20240101), Null},
     kwh : {Num(950), Num(0), Text("0"), Num(-5), Text("not-a-number"),
            Text(""), Null}]

\* lists of at most MaxRows elements of S
ListsOf(S) == UNION {[1..n -> S] : n \in 0..MaxRows}

IngestInit ==
    /\ \/ ing \in [source : {"csv"}, header : CsvHeaders,
                    rows : ListsOf(CsvRows), out : {Idle}]
       \/ ing \in [source : {"json"}, data : ListsOf(JsonItems),
                    out : {Idle}]
    /\ ca_in = Idle /\ analysis = Idle /\ sc_in = Idle /\ scored = Idle
    /\ req = Idle /\ run = Idle /\ cc_in = Idle /\ cc_out = Idle
    /\ db = Idle /\ cache = Idle /\ last = Idle
    /\ windows = Idle /\ ua = Idle /\ rl = Idle /\ gen = Idle

ParseCsvCall ==
    /\ ing.source = "csv" /\ ing.out = Idle
    /\ ing' = [ing EXCEPT !.out = ParseCsv(ing.header, ing.rows)]
    /\ UNCHANGED <<ca_in, analysis, sc_in, scored, req, run, cc_in, cc_out, db, cache, last, windows, ua, rl, gen>>

ParseJsonCall ==
    /\ ing.source = "json" /\ ing.out = Idle
    /\ ing' = [ing EXCEPT !.out = ParseJson(ing.data)]
    /\ UNCHANGED <<ca_in, analysis, sc_in, scored, req, run, cc_in, cc_out, db, cache, last, windows, ua, rl, gen>>

IngestNext == ParseCsvCall \/ ParseJsonCall

SpecIngest == IngestInit /\ [][IngestNext]_vars

----------------------------------------------------------------------------
(* The HTTP endpoints over the database and the Redis cache                 *)
(*   api/v1/endpoints/{recommendations,preferences,customers,plans}.py      *)
(*   services/cached_plan_service.py, core/redis.py                         *)
(* db is the database, cache the Redis keys plans:all, plans:{id} and       *)
(* recommendations:{customer_id}, last the last request with its response.  *)
(* A missing key is Nothing; the list under plans:all is [value |-> list].  *)

\* customers ever created (ids are uuid4 values and are never reused)
MaxCustomers == 1
\* active plans in the catalog
MaxPlans == 4

CustomerIds == 1..MaxCustomers
PlanIds == {p.id : p \in StorePlans}

\* request bodies of POST /customers
CustomerPayloads ==
    { [external_id |-> "a", usage_data |-> [i \in 1..12 |-> 1000],
       current_plan_id |-> 6, contract_end_date |-> Today + 60,
       early_termination_fee |-> 15000],
      [external_id |-> "b", usage_data |-> [i \in 1..2 |-> 1000],
       current_plan_id |-> NoneVal, contract_end_date |-> NoneVal,
       early_termination_fee |-> NoneVal] }

\* request bodies of PUT /preferences/{customer_id}
PreferencePayloads == { CustomerPreference(<<10, 10, 70, 10>>, 50, 12, TRUE) }

\* the preferences field of a recommendation request
PreferenceOverrides ==
    { Nothing, CustomerPreference(<<40, 40, 10, 10>>, 0, 12, FALSE) }

\* the include_switching_analysis field of a recommendation request
IncludeOptions == {TRUE}

\* the catalog the database starts with, and the plans POST /plans can add
InitialPlanSets == { {p \in StorePlans : p.id \in {1, 3, 6}} }
NewPlans == {p \in StorePlans : p.id = 7}

\* where a Redis command of the request raises ConnectionError
FailurePoints ==
    { "none", "get plans:all", "set plans:all", "get plans:id",
      "set plans:id", "set recommendations" }

\* PlanRepository.get_all: the active plans ordered by rate_per_kwh, plans
\* of the same rate in any order
OrderedByRate(plan_set) ==
    { s \in [1..Cardinality(plan_set) -> plan_set] :
        /\ \A i, j \in DOMAIN s : i < j => s[i].id # s[j].id
        /\ \A i, j \in DOMAIN s :
              i < j => s[i].rate_per_kwh <= s[j].rate_per_kwh }

\* _plan_to_dict: the fee and the supplier rating are written only if truthy
PlanToDict(plan) ==
    [plan EXCEPT
        !.early_termination_fee =
            IF Truthy(plan.early_termination_fee)
            THEN plan.early_termination_fee ELSE NoneVal,
        !.rating = IF Truthy(plan.rating) THEN plan.rating ELSE NoneVal]

\* _dict_to_plan: a missing or empty value becomes None
DictToPlan(data) ==
    [data EXCEPT
        !.early_termination_fee =
            IF Truthy(data.early_termination_fee)
            THEN data.early_termination_fee ELSE NoneVal,
        !.rating = IF Truthy(data.rating) THEN data.rating ELSE NoneVal]

\* a variant that accepts any existing customer
RejectRequestNoUsageCheck(customer) ==
    IF customer = Nothing THEN 404 ELSE 0

\* the checks of the generate endpoint before the service is constructed:
\* the HTTP status of the rejection, 0 if the request goes on
RejectRequest(customer) ==
    IF customer = Nothing THEN 404
    ELSE IF Len(customer.usage_data) < 3 THEN 400
    ELSE 0

\* POST /recommendations: the possible outcomes of the request (response and
\* cache afterwards), one for each point at which Redis may fail
GenerateEndpoint(customer_id, override, include_switching_analysis, catalog) ==
    LET customer == db.customers[customer_id]
        rejected == RejectRequest(customer)
        request == [op |-> "generate", customer_id |-> customer_id,
                    override |-> override,
                    include_switching_analysis |-> include_switching_analysis,
                    status |-> 0, error |-> "None", cache_failed |-> FALSE,
                    preferences |-> Nothing, run |-> Nothing]
        preferences == GetPreferences(override, db.preferences[customer_id])
        \* get_all_active_plans; "if cached:" takes an empty list for a miss
        plans_hit == cache.plans_all # Nothing /\ cache.plans_all.value # <<>>
        plans == IF plans_hit
                 THEN [i \in 1..Len(cache.plans_all.value) |->
                          DictToPlan(cache.plans_all.value[i])]
                 ELSE catalog
        cache1 == IF plans_hit THEN cache
                  ELSE [cache EXCEPT !.plans_all =
                           [value |-> [i \in 1..Len(catalog) |->
                                          PlanToDict(catalog[i])]]]
        \* get_plan_by_id(customer.current_plan_id)
        plan_id == customer.current_plan_id
        plan_hit == plan_id # NoneVal /\ cache1.plan[plan_id] # Nothing
        found == {q \in db.plans : q.id = plan_id}
        store_plans == IF plan_id = NoneVal THEN {}
                       ELSE IF plan_hit THEN {DictToPlan(cache1.plan[plan_id])}
                       ELSE found
        cache2 == IF plan_id # NoneVal /\ ~plan_hit /\ found # {}
                  THEN [cache1 EXCEPT !.plan[plan_id] =
                           PlanToDict(CHOOSE q \in found : TRUE)]
                  ELSE cache1
        result == GenerateRecommendations(customer, preferences, plans,
                      include_switching_analysis, store_plans, Today)
        \* no handler catches the exception: the request ends with status 500
        \* and keeps what it wrote to the cache before
        Failed(c, error) ==
            [last |-> [request EXCEPT !.status = 500, !.error = error,
                                      !.cache_failed =
                                          (error = "ConnectionError"),
                                      !.preferences = preferences],
             cache |-> c]
        Outcome(failure, r) ==
            IF rejected # 0
            THEN [last |-> [request EXCEPT !.status = rejected],
                  cache |-> cache]
            ELSE IF failure = "get plans:all"
            THEN Failed(cache, "ConnectionError")
            ELSE IF ~plans_hit /\ failure = "set plans:all"
            THEN Failed(cache, "ConnectionError")
            ELSE IF r.status = "error"
            THEN Failed(cache1, r.error)
            ELSE IF plan_id # NoneVal /\ failure = "get plans:id"
            THEN Failed(cache1, "ConnectionError")
            ELSE IF /\ plan_id # NoneVal /\ ~plan_hit /\ found # {}
                    /\ failure = "set plans:id"
            THEN Failed(cache1, "ConnectionError")
            ELSE IF failure = "set recommendations"
            THEN Failed(cache2, "ConnectionError")
            ELSE [last |-> [request EXCEPT !.status = 200,
                                           !.preferences = preferences,
                                           !.run = r],
                  cache |-> [cache2 EXCEPT !.recommendations[customer_id] =
                                              r.response]]
    IN  {Outcome(failure, result) : failure \in FailurePoints}

ServiceInit ==
    /\ db \in [customers : {[c \in CustomerIds |-> Nothing]},
               preferences : {[c \in CustomerIds |-> Nothing]},
               plans : InitialPlanSets,
               next_id : {1}]
    /\ cache = [plans_all |-> Nothing,
                plan |-> [p \in PlanIds |-> Nothing],
                recommendations |-> [c \in CustomerIds |-> Nothing]]
    /\ last = Idle
    /\ ca_in = Idle /\ analysis = Idle /\ sc_in = Idle /\ scored = Idle
    /\ req = Idle /\ run = Idle /\ cc_in = Idle /\ cc_out = Idle
    /\ windows = Idle /\ ing = Idle /\ ua = Idle /\ rl = Idle /\ gen = Idle

\* POST /customers.  A request that would create more than MaxCustomers
\* customers is not taken.
CreateCustomer(data) ==
    /\ LET id == db.next_id
           exists == \E c \in CustomerIds :
                        /\ db.customers[c] # Nothing
                        /\ db.customers[c].external_id = data.external_id
           no_plan == /\ data.current_plan_id # NoneVal
                      /\ \A q \in db.plans : q.id # data.current_plan_id
           Response(status) == [op |-> "create_customer",
                                customer_id |-> IF status = 201 THEN id
                                                ELSE NoneVal,
                                status |-> status]
       IN  IF exists
           THEN /\ last' = Response(409)
                /\ db' = db
           ELSE IF no_plan
           THEN /\ last' = Response(500)
                /\ db' = db
           ELSE /\ id <= MaxCustomers
                /\ last' = Response(201)
                /\ db' = [db EXCEPT !.customers[id] = data, !.next_id = id + 1]
    /\ UNCHANGED <<ca_in, analysis, sc_in, scored, req, run, cc_in, cc_out, cache, windows, ing, ua, rl, gen>>

\* DELETE /customers/{customer_id}: usage and preference rows go with the
\* customer (cascade="all, delete-orphan")
DeleteCustomer(customer_id) ==
    /\ IF db.customers[customer_id] = Nothing
       THEN /\ last' = [op |-> "delete_customer", customer_id |-> customer_id,
                        status |-> 404]
            /\ db' = db
       ELSE /\ last' = [op |-> "delete_customer", customer_id |-> customer_id,
                        status |-> 204]
            /\ db' = [db EXCEPT !.customers[customer_id] = Nothing,
                                !.preferences[customer_id] = Nothing]
    /\ UNCHANGED <<ca_in, analysis, sc_in, scored, req, run, cc_in, cc_out, cache, windows, ing, ua, rl, gen>>

\* PUT /preferences/{customer_id}
UpsertPreferences(customer_id, data) ==
    /\ IF db.customers[customer_id] = Nothing
       THEN /\ last' = [op |-> "upsert_preferences",
                        customer_id |-> customer_id, status |-> 404]
            /\ db' = db
       ELSE /\ last' = [op |-> "upsert_preferences",
                        customer_id |-> customer_id, status |-> 200]
            /\ db' = [db EXCEPT !.preferences[customer_id] = data]
    /\ UNCHANGED <<ca_in, analysis, sc_in, scored, req, run, cc_in, cc_out, cache, windows, ing, ua, rl, gen>>

\* DELETE /preferences/{customer_id}
DeletePreferences(customer_id) ==
    /\ IF db.preferences[customer_id] = Nothing
       THEN /\ last' = [op |-> "delete_preferences",
                        customer_id |-> customer_id, status |-> 404]
            /\ db' = db
       ELSE /\ last' = [op |-> "delete_preferences",
                        customer_id |-> customer_id, status |-> 204]
            /\ db' = [db EXCEPT !.preferences[customer_id] = Nothing]
    /\ UNCHANGED <<ca_in, analysis, sc_in, scored, req, run, cc_in, cc_out, cache, windows, ing, ua, rl, gen>>

\* POST /plans
CreatePlan(plan) ==
    /\ Cardinality(db.plans) < MaxPlans
    /\ plan \notin db.plans
    /\ db' = [db EXCEPT !.plans = @ \cup {plan}]
    /\ last' = [op |-> "create_plan", customer_id |-> NoneVal, status |-> 201]
    /\ UNCHANGED <<ca_in, analysis, sc_in, scored, req, run, cc_in, cc_out, cache, windows, ing, ua, rl, gen>>

\* POST /recommendations
GenerateRecommendationsRequest(customer_id, override, include_switching_analysis) ==
    /\ \E catalog \in OrderedByRate(db.plans) :
          \E served \in GenerateEndpoint(customer_id, override,
                              include_switching_analysis, catalog) :
              /\ last' = served.last
              /\ cache' = served.cache
    /\ UNCHANGED <<ca_in, analysis, sc_in, scored, req, run, cc_in, cc_out, db, windows, ing, ua, rl, gen>>

\* GET /recommendations/{customer_id}
GetCachedRecommendations(customer_id) ==
    /\ last' = [op |-> "get_cached", customer_id |-> customer_id,
                status |-> IF db.customers[customer_id] = Nothing THEN 404
                           ELSE IF cache.recommendations[customer_id] = Nothing
                           THEN 404 ELSE 200,
                response |-> IF db.customers[customer_id] = Nothing
                             THEN Nothing
                             ELSE cache.recommendations[customer_id]]
    /\ UNCHANGED <<ca_in, analysis, sc_in, scored, req, run, cc_in, cc_out, db, cache, windows, ing, ua, rl, gen>>

\* DELETE /recommendations/{customer_id}
InvalidateRecommendations(customer_id) ==
    /\ cache' = [cache EXCEPT !.recommendations[customer_id] = Nothing]
    /\ last' = [op |-> "invalidate", customer_id |-> customer_id,
                status |-> 204]
    /\ UNCHANGED <<ca_in, analysis, sc_in, scored, req, run, cc_in, cc_out, db, windows, ing, ua, rl, gen>>

\* a key reaches its TTL (plans:all 300 s, plans:{id} 600 s,
\* recommendations:{id} 3600 s)
ExpirePlansAll ==
    /\ cache.plans_all # Nothing
    /\ cache' = [cache EXCEPT !.plans_all = Nothing]
    /\ UNCHANGED <<ca_in, analysis, sc_in, scored, req, run, cc_in, cc_out, db, last, windows, ing, ua, rl, gen>>

ExpirePlan(plan_id) ==
    /\ cache.plan[plan_id] # Nothing
    /\ cache' = [cache EXCEPT !.plan[plan_id] = Nothing]
    /\ UNCHANGED <<ca_in, analysis, sc_in, scored, req, run, cc_in, cc_out, db, last, windows, ing, ua, rl, gen>>

ExpireRecommendations(customer_id) ==
    /\ cache.recommendations[customer_id] # Nothing
    /\ cache' = [cache EXCEPT !.recommendations[customer_id] = Nothing]
    /\ UNCHANGED <<ca_in, analysis, sc_in, scored, req, run, cc_in, cc_out, db, last, windows, ing, ua, rl, gen>>

ServiceNext ==
    \/ \E data \in CustomerPayloads : CreateCustomer(data)
    \/ \E c \in CustomerIds : DeleteCustomer(c)
    \/ \E c \in CustomerIds, data \in PreferencePayloads : UpsertPreferences(c, data)
    \/ \E c \in CustomerIds : DeletePreferences(c)
    \/ \E plan \in NewPlans : CreatePlan(plan)
    \/ \E c \in CustomerIds, override \in PreferenceOverrides, include \in IncludeOptions : GenerateRecommendationsRequest(c, override, include)
    \/ \E c \in CustomerIds : GetCachedRecommendations(c)
    \/ \E c \in CustomerIds : InvalidateRecommendations(c)
    \/ ExpirePlansAll
    \/ \E p \in PlanIds : ExpirePlan(p)
    \/ \E c \in CustomerIds : ExpireRecommendations(c)

SpecService == ServiceInit /\ [][ServiceNext]_vars

----------------------------------------------------------------------------
(* RecommendationService.generate_recommendations step by step.  Every     *)
(* await of the call (a Redis command, a database query) is a point where  *)
(* other requests and catalog changes take their turn; the code between    *)
(* two awaits runs without interruption on the event loop.                 *)

\* the generate calls in flight
MaxCalls == 2
Calls == 1..MaxCalls

\* the customers of the calls, and the preferences each call is made with
\* (call 1 and call 2 differ, further calls repeat them)
CallCustomers == {c \in CustomerPayloads : Len(c.usage_data) >= 3}
CallPreferences ==
    << CustomerPreference(<<40, 40, 10, 10>>, 0, 12, FALSE),
       CustomerPreference(<<10, 10, 70, 10>>, 10, 24, TRUE) >>
PreferencesOf(c) == CallPreferences[((c - 1) % Len(CallPreferences)) + 1]

\* the plans POST /plans adds while calls are in flight
ArrivingPlans == {p \in StorePlans : p.id = 7}

\* the locals of a call that has not started
NotStarted ==
    [pc |-> "idle", customer |-> Nothing, preferences |-> Nothing,
     plans |-> <<>>, fetched |-> 0, current_plan |-> {}, run |-> Nothing]

\* a variant whose later stages read the catalog of the database again
StagePlansRefetched(call, stored) ==
    CHOOSE catalog \in OrderedByRate(stored) : TRUE

\* the catalog the filter, cost and scoring stages work on: the local
\* variable plans, assigned once from get_all_active_plans
StagePlans(call, stored) == call.plans

GenerateInit ==
    /\ gen = [plans |-> CHOOSE initial \in InitialPlanSets : TRUE,
              plans_all |-> Nothing,
              plan |-> [p \in PlanIds |-> Nothing],
              calls |-> [c \in Calls |-> NotStarted]]
    /\ ca_in = Idle /\ analysis = Idle /\ sc_in = Idle /\ scored = Idle
    /\ req = Idle /\ run = Idle /\ cc_in = Idle /\ cc_out = Idle
    /\ db = Idle /\ cache = Idle /\ last = Idle
    /\ windows = Idle /\ ing = Idle /\ ua = Idle /\ rl = Idle

\* the call begins: _get_preferences returns the preferences of the request
StartCall(c, customer) ==
    /\ gen.calls[c].pc = "idle"
    /\ gen' = [gen EXCEPT !.calls[c] =
                  [NotStarted EXCEPT !.pc = "get plans:all",
                                     !.customer = customer,
                                     !.preferences = PreferencesOf(c)]]
    /\ UNCHANGED <<ca_in, analysis, sc_in, scored, req, run, cc_in, cc_out, db, cache, last, windows, ing, ua, rl>>

\* get_all_active_plans, cache.get("plans:all"): a hit returns the cached
\* list, "if cached:" takes an empty list for a miss
CacheGetPlans(c) ==
    /\ gen.calls[c].pc = "get plans:all"
    /\ IF gen.plans_all # Nothing /\ gen.plans_all.value # <<>>
       THEN gen' = [gen EXCEPT
                       !.calls[c].plans =
                           [i \in 1..Len(gen.plans_all.value) |->
                               DictToPlan(gen.plans_all.value[i])],
                       !.calls[c].fetched = @ + 1,
                       !.calls[c].pc = "filter"]
       ELSE gen' = [gen EXCEPT !.calls[c].pc = "select plans"]
    /\ UNCHANGED <<ca_in, analysis, sc_in, scored, req, run, cc_in, cc_out, db, cache, last, windows, ing, ua, rl>>

\* get_all_active_plans, repo.get_all(active_only=True)
SelectPlans(c) ==
    /\ gen.calls[c].pc = "select plans"
    /\ \E catalog \in OrderedByRate(gen.plans) :
          gen' = [gen EXCEPT !.calls[c].plans = catalog,
                             !.calls[c].fetched = @ + 1,
                             !.calls[c].pc = "set plans:all"]
    /\ UNCHANGED <<ca_in, analysis, sc_in, scored, req, run, cc_in, cc_out, db, cache, last, windows, ing, ua, rl>>

\* get_all_active_plans, cache.set("plans:all", ...)
CacheSetPlans(c) ==
    /\ gen.calls[c].pc = "set plans:all"
    /\ gen' = [gen EXCEPT
                  !.plans_all =
                      [value |-> [i \in 1..Len(gen.calls[c].plans) |->
                                     PlanToDict(gen.calls[c].plans[i])]],
                  !.calls[c].pc = "filter"]
    /\ UNCHANGED <<ca_in, analysis, sc_in, scored, req, run, cc_in, cc_out, db, cache, last, windows, ing, ua, rl>>

\* _filter_by_constraints and calculate_all_costs on the local plans, then
\* get_plan_by_id(customer.current_plan_id) through the cache; a TypeError
\* of the filter ends the call
FilterAndCurrentPlan(c) ==
    /\ gen.calls[c].pc = "filter"
    /\ LET call == gen.calls[c]
           plan_id == call.customer.current_plan_id
           hit == plan_id # NoneVal /\ gen.plan[plan_id] # Nothing
           found == {q \in gen.plans : q.id = plan_id}
       IN  IF FilterRaises(StagePlans(call, gen.plans), call.preferences)
           THEN gen' = [gen EXCEPT !.calls[c].pc = "failed"]
           ELSE IF plan_id = NoneVal
           THEN gen' = [gen EXCEPT !.calls[c].pc = "score"]
           ELSE IF hit
           THEN gen' = [gen EXCEPT
                           !.calls[c].current_plan =
                               {DictToPlan(gen.plan[plan_id])},
                           !.calls[c].pc = "score"]
           ELSE gen' = [gen EXCEPT
                           !.calls[c].current_plan = found,
                           !.plan[plan_id] =
                               IF found = {} THEN Nothing
                               ELSE PlanToDict(CHOOSE q \in found : TRUE),
                           !.calls[c].pc = "score"]
    /\ UNCHANGED <<ca_in, analysis, sc_in, scored, req, run, cc_in, cc_out, db, cache, last, windows, ing, ua, rl>>

\* score_plans, the top 3 and the response, from the eligible plans and
\* the costs computed before the await
Respond(c) ==
    /\ gen.calls[c].pc = "score"
    /\ LET call == gen.calls[c]
           result == GenerateRecommendations(call.customer, call.preferences,
                         StagePlans(call, gen.plans), TRUE,
                         call.current_plan, Today)
       IN  gen' = [gen EXCEPT
                      !.calls[c].run =
                          [eligible_plans |-> result.eligible_plans,
                           response |-> result.response],
                      !.calls[c].pc = "done"]
    /\ UNCHANGED <<ca_in, analysis, sc_in, scored, req, run, cc_in, cc_out, db, cache, last, windows, ing, ua, rl>>

\* POST /plans commits while calls are in flight
PlanArrives(plan) ==
    /\ Cardinality(gen.plans) < MaxPlans
    /\ plan \notin gen.plans
    /\ gen' = [gen EXCEPT !.plans = @ \cup {plan}]
    /\ UNCHANGED <<ca_in, analysis, sc_in, scored, req, run, cc_in, cc_out, db, cache, last, windows, ing, ua, rl>>

\* Redis drops plans:all when its 300 s are over
PlansAllExpires ==
    /\ gen.plans_all # Nothing
    /\ gen' = [gen EXCEPT !.plans_all = Nothing]
    /\ UNCHANGED <<ca_in, analysis, sc_in, scored, req, run, cc_in, cc_out, db, cache, last, windows, ing, ua, rl>>

GenerateNext ==
    \/ \E c \in Calls, customer \in CallCustomers : StartCall(c, customer)
    \/ \E c \in Calls : CacheGetPlans(c)
    \/ \E c \in Calls : SelectPlans(c)
    \/ \E c \in Calls : CacheSetPlans(c)
    \/ \E c \in Calls : FilterAndCurrentPlan(c)
    \/ \E c \in Calls : Respond(c)
    \/ \E plan \in ArrivingPlans : PlanArrives(plan)
    \/ PlansAllExpires

SpecGenerate == GenerateInit /\ [][GenerateNext]_vars

----------------------------------------------------------------------------
(* RateLimitMiddleware.  Time is in seconds; the requests of one client id *)
(* (the keys ratelimit:{client_id}:minute and :hour) on the instances that *)
(* share one Redis.  Two calls of time.time() give different values.       *)

\* the limits of the middleware (60 and 1000 in main.py)
RequestsPerMinute == 2
RequestsPerHour == 3

\* the requests of the client, the instances, and the time covered
MaxRequests == 4
Requests == 1..MaxRequests
Instances == {1, 2}
MaxTime == 70
TickSeconds == 35

\* a request that has not arrived
NotArrived == [pc |-> "idle", instance |-> 0, now |-> 0]

\* a variant that lets every request through
CheckRateLimitMemoryNoLimit(store, now) ==
    [is_allowed |-> TRUE,
     store |-> Append(SelectSeq(store, LAMBDA ts : ts > now - 60), now)]

\* _check_rate_limit_memory on the list of one client: entries of the last
\* minute are kept, the request is allowed below requests_per_minute and
\* then appended
CheckRateLimitMemory(store, now) ==
    LET kept == SelectSeq(store, LAMBDA ts : ts > now - 60)
    IN  IF Len(kept) >= RequestsPerMinute
        THEN [is_allowed |-> FALSE, store |-> kept]
        ELSE [is_allowed |-> TRUE, store |-> Append(kept, now)]

\* zremrangebyscore(key, 0, max)
ZRemRangeByScore(zset, max) == {m \in zset : m > max}

RateLimitInit ==
    /\ rl = [clock |-> 1, redis_up |-> TRUE, minute |-> {}, hour |-> {},
             memory |-> [i \in Instances |-> <<>>],
             requests |-> [r \in Requests |-> NotArrived],
             passed |-> {}]
    /\ ca_in = Idle /\ analysis = Idle /\ sc_in = Idle /\ scored = Idle
    /\ req = Idle /\ run = Idle /\ cc_in = Idle /\ cc_out = Idle
    /\ db = Idle /\ cache = Idle /\ last = Idle
    /\ windows = Idle /\ ing = Idle /\ ua = Idle /\ gen = Idle

\* the except branch of _check_rate_limit: the in-memory check of the
\* instance, with a new time.time()
MemoryFallback(r, instance) ==
    LET checked == CheckRateLimitMemory(rl.memory[instance], rl.clock)
    IN  [rl EXCEPT
            !.memory[instance] = checked.store,
            !.clock = @ + 1,
            !.requests[r].now = rl.clock,
            !.requests[r].pc =
                IF checked.is_allowed THEN "passed" ELSE "rejected",
            !.passed = IF checked.is_allowed THEN @ \cup {rl.clock} ELSE @]

\* dispatch of a non-health request up to the first pipe.execute() of
\* _check_rate_limit_redis: old entries are removed and the two counts are
\* compared with the limits
CheckRateLimit(r, instance) ==
    /\ rl.requests[r].pc = "idle"
    /\ rl.clock < MaxTime
    /\ IF ~rl.redis_up
       THEN rl' = [MemoryFallback(r, instance) EXCEPT
                      !.requests[r].instance = instance]
       ELSE LET now == rl.clock
                minute == ZRemRangeByScore(rl.minute, now - 60)
                hour == ZRemRangeByScore(rl.hour, now - 3600)
                is_allowed == /\ Cardinality(minute) < RequestsPerMinute
                              /\ Cardinality(hour) < RequestsPerHour
            IN  rl' = [rl EXCEPT
                          !.minute = minute, !.hour = hour,
                          !.clock = @ + 1,
                          !.requests[r] =
                              [pc |-> IF is_allowed THEN "add"
                                      ELSE "rejected",
                               instance |-> instance, now |-> now]]
    /\ UNCHANGED <<ca_in, analysis, sc_in, scored, req, run, cc_in, cc_out, db, cache, last, windows, ing, ua, gen>>

\* the second pipe.execute(): zadd of str(now) with score now to both keys
AddRequest(r) ==
    /\ rl.requests[r].pc = "add"
    /\ IF ~rl.redis_up
       THEN rl' = MemoryFallback(r, rl.requests[r].instance)
       ELSE rl' = [rl EXCEPT
                      !.minute = @ \cup {rl.requests[r].now},
                      !.hour = @ \cup {rl.requests[r].now},
                      !.requests[r].pc = "passed",
                      !.passed = @ \cup {rl.requests[r].now}]
    /\ UNCHANGED <<ca_in, analysis, sc_in, scored, req, run, cc_in, cc_out, db, cache, last, windows, ing, ua, gen>>

\* time passes
Tick ==
    /\ rl.clock + TickSeconds <= MaxTime
    /\ rl' = [rl EXCEPT !.clock = @ + TickSeconds]
    /\ UNCHANGED <<ca_in, analysis, sc_in, scored, req, run, cc_in, cc_out, db, cache, last, windows, ing, ua, gen>>

\* Redis becomes unreachable, and reachable again
RedisFails ==
    /\ rl.redis_up
    /\ rl' = [rl EXCEPT !.redis_up = FALSE]
    /\ UNCHANGED <<ca_in, analysis, sc_in, scored, req, run, cc_in, cc_out, db, cache, last, windows, ing, ua, gen>>

RedisRecovers ==
    /\ ~rl.redis_up
    /\ rl' = [rl EXCEPT !.redis_up = TRUE]
    /\ UNCHANGED <<ca_in, analysis, sc_in, scored, req, run, cc_in, cc_out, db, cache, last, windows, ing, ua, gen>>

RateLimitNext ==
    \/ \E r \in Requests, instance \in Instances : CheckRateLimit(r, instance)
    \/ \E r \in Requests : AddRequest(r)
    \/ Tick
    \/ RedisFails
    \/ RedisRecovers

SpecRateLimit == RateLimitInit /\ [][RateLimitNext]_vars

----------------------------------------------------------------------------
(* UsageAnalyzer.  A usage record is [year, month, kwh_usage]: usage_date  *)
(* is the first day of the month, kWh are whole numbers, the annual        *)
(* estimate is in 1/100 kWh.  With whole kWh the quotient total / months   *)
(* * 12 is never half a hundredth, so round(..., 2) of the float is the    *)
(* rounded exact quotient.                                                 *)

\* AVERAGE_ANNUAL_KWH, in 1/100 kWh
AVERAGE_ANNUAL_KWH == 1050000

UsageRecord(year, month, kwh_usage) ==
    [year |-> year, month |-> month, kwh_usage |-> kwh_usage]

\* the order of usage_date
EarlierDate(a, b) ==
    a.year < b.year \/ (a.year = b.year /\ a.month < b.month)

\* sorted(usage_data, key=lambda x: x.usage_date): records of the same date
\* keep their order
RECURSIVE SortedByDate(_)
SortedByDate(usage_data) ==
    IF usage_data = <<>> THEN <<>>
    ELSE LET head == Head(usage_data)
             rest == SortedByDate(Tail(usage_data))
             k == Cardinality({j \in 1..Len(rest) :
                                  EarlierDate(rest[j], head)})
         IN  SubSeq(rest, 1, k) \o <<head>> \o SubSeq(rest, k + 1, Len(rest))

\* _detect_gaps: the loop over the sorted records from the i-th on
RECURSIVE DetectGapsLoop(_, _, _)
DetectGapsLoop(sorted_data, i, gap_months) ==
    IF i > Len(sorted_data) THEN gap_months
    ELSE LET prev_date == sorted_data[i - 1]
             curr_date == sorted_data[i]
             expected_month == IF prev_date.month < 12
                               THEN prev_date.month + 1 ELSE 1
             expected_year == IF prev_date.month < 12
                              THEN prev_date.year ELSE prev_date.year + 1
         IN  DetectGapsLoop(sorted_data, i + 1,
                 IF \/ curr_date.month # expected_month
                    \/ curr_date.year # expected_year
                 THEN Append(gap_months, expected_month)
                 ELSE gap_months)

\* _detect_gaps
DetectGaps(usage_data) ==
    IF Len(usage_data) < 2
    THEN [has_gaps |-> FALSE, gap_months |-> <<>>]
    ELSE LET gap_months == DetectGapsLoop(SortedByDate(usage_data), 2, <<>>)
         IN  [has_gaps |-> Len(gap_months) > 0, gap_months |-> gap_months]

\* _estimate_annual_usage, in 1/100 kWh
EstimateAnnualUsage(usage_data) ==
    IF usage_data = <<>> THEN 0
    ELSE RoundHalfEven(
             SeqSum([i \in 1..Len(usage_data) |-> usage_data[i].kwh_usage])
                 * 12 * 100,
             Len(usage_data))

\* a variant whose medium tier ends at 12000 kWh
DetermineTierMedium12000(annual_kwh) ==
    IF annual_kwh < 600000 THEN "low"
    ELSE IF annual_kwh < 1200000 THEN "medium"
    ELSE IF annual_kwh < 1500000 THEN "high"
    ELSE "very_high"

\* _determine_tier
DetermineTier(annual_kwh) ==
    IF annual_kwh < 600000 THEN "low"
    ELSE IF annual_kwh < 1050000 THEN "medium"
    ELSE IF annual_kwh < 1500000 THEN "high"
    ELSE "very_high"

\* _empty_analysis
EmptyAnalysis ==
    [total_annual_kwh |-> 0, min_monthly_kwh |-> 0, max_monthly_kwh |-> 0,
     annual_estimate |-> 0, is_high_consumer |-> FALSE,
     consumption_tier |-> "unknown", months_of_data |-> 0,
     has_gaps |-> TRUE, gap_months |-> <<>>]

\* analyze: the totals, the consumption tier and the gaps (the seasonal
\* pattern, the trend, the deviation and the quality score are further
\* fields computed from the same sorted list); annual_estimate is the
\* local both is_high_consumer and consumption_tier are derived from
Analyze(usage_data) ==
    IF usage_data = <<>> THEN EmptyAnalysis
    ELSE LET sorted_data == SortedByDate(usage_data)
             monthly_values == {sorted_data[i].kwh_usage :
                                   i \in 1..Len(sorted_data)}
             annual_estimate == EstimateAnnualUsage(sorted_data)
             gaps == DetectGaps(sorted_data)
         IN  [total_annual_kwh |->
                  SeqSum([i \in 1..Len(sorted_data) |->
                             sorted_data[i].kwh_usage]),
              min_monthly_kwh |-> MinOf(monthly_values),
              max_monthly_kwh |-> MaxOf(monthly_values),
              annual_estimate |-> annual_estimate,
              is_high_consumer |-> annual_estimate > AVERAGE_ANNUAL_KWH,
              consumption_tier |-> DetermineTier(annual_estimate),
              months_of_data |-> Len(sorted_data),
              has_gaps |-> gaps.has_gaps,
              gap_months |-> gaps.gap_months]

\* the months of the usage records and their kWh
MaxRecords == 3
UsagePeriods ==
    {<<2023, 11>>, <<2023, 12>>, <<2024, 1>>, <<2024, 2>>, <<2024, 3>>}
UsageKwh == {400, 750, 875, 1000, 1300}

\* the usage records of a call: n records of distinct months, in any order
UsageSeries(n, periods, kwh) ==
    [i \in 1..n |-> UsageRecord(periods[i][1], periods[i][2], kwh[i])]

UsageInit ==
    /\ \E n \in 0..MaxRecords :
          \E periods \in [1..n -> UsagePeriods], kwh \in [1..n -> UsageKwh] :
              /\ \A i, j \in 1..n : i # j => periods[i] # periods[j]
              /\ ua = [usage_data |-> UsageSeries(n, periods, kwh),
                       gaps |-> Idle, analysis |-> Idle]
    /\ ca_in = Idle /\ analysis = Idle /\ sc_in = Idle /\ scored = Idle
    /\ req = Idle /\ run = Idle /\ cc_in = Idle /\ cc_out = Idle
    /\ db = Idle /\ cache = Idle /\ last = Idle
    /\ windows = Idle /\ ing = Idle /\ rl = Idle /\ gen = Idle

DetectGapsCall ==
    /\ ua.gaps = Idle
    /\ ua' = [ua EXCEPT !.gaps = [status |-> "done",
                                   result |-> DetectGaps(ua.usage_data)]]
    /\ UNCHANGED <<ca_in, analysis, sc_in, scored, req, run, cc_in, cc_out, db, cache, last, windows, ing, rl, gen>>

AnalyzeCall ==
    /\ ua.analysis = Idle
    /\ ua' = [ua EXCEPT !.analysis = [status |-> "done",
                                       result |-> Analyze(ua.usage_data)]]
    /\ UNCHANGED <<ca_in, analysis, sc_in, scored, req, run, cc_in, cc_out, db, cache, last, windows, ing, rl, gen>>

UsageNext == DetectGapsCall \/ AnalyzeCall

SpecUsage == UsageInit /\ [][UsageNext]_vars

----------------------------------------------------------------------------
(* Properties of analyze_switch_timing (checked under SpecContract) *)

Done == analysis.status = "done"
InActive == HasActiveContract(ca_in.current_contract_end, ca_in.today)
InDays == ca_in.current_contract_end - ca_in.today
InMonthly == ca_in.current_plan_monthly_cost - ca_in.new_plan_monthly_cost
InAnnual == 12 * InMonthly
InFee == ca_in.early_termination_fee

\* The gate the ordered list of the specification selects for the inputs,
\* "none" when no gate matches.  Only evaluated past gate 0, so InMonthly > 0.
StatedGate ==
    IF InMonthly <= 0 THEN "0"
    ELSE IF InAnnual < 50 THEN "a"
    ELSE IF InFee > InAnnual /\ BreakEvenMonths(InFee, InMonthly) > 18 THEN "b"
    ELSE IF InFee > 0
            /\ BreakEvenMonths(InFee, InMonthly) > ca_in.new_plan_contract_months
         THEN "c"
    ELSE IF InActive /\ InDays <= 14 /\ 2 * InFee > 3 * InMonthly THEN "d"
    ELSE IF InAnnual < 100 THEN "e"
    ELSE "none"

Outcome(recommendation, reason, confidence) ==
    /\ analysis.switch_recommendation = recommendation
    /\ analysis.not_beneficial_reason = reason
    /\ analysis.confidence_score = confidence

\* C3: analyze_switch_timing decides by the ordered gates 0, a, b, c, d, e;
\* the first gate that matches fixes recommendation, reason and confidence
\* (gate 0 also reports immediate_switch_savings = monthly_savings, gate d
\* the contract end as optimal date), and without a match the reason is null.
C3_OrderedGates ==
    Done =>
        CASE StatedGate = "0" ->
                /\ Outcome("not_beneficial", "new_plan_more_expensive", 100)
                /\ analysis.immediate_switch_savings = InMonthly
          [] StatedGate = "a" ->
                Outcome("not_beneficial", "savings_too_small", 90)
          [] StatedGate = "b" ->
                Outcome("not_beneficial", "etf_exceeds_annual_savings", 95)
          [] StatedGate = "c" ->
                Outcome("not_beneficial", "break_even_too_long", 85)
          [] StatedGate = "d" ->
                /\ Outcome("marginal_benefit", "contract_too_short", 70)
                /\ analysis.optimal_switch_date = ca_in.current_contract_end
          [] StatedGate = "e" ->
                Outcome("marginal_benefit", "savings_too_small", 60)
          [] OTHER -> analysis.not_beneficial_reason = "None"

\* gate b decided a call whose savings are also below the marginal threshold
\* and whose break-even exceeds the new contract: the later gates c and e match
C3_Witness ==
    /\ Done
    /\ analysis.not_beneficial_reason = "etf_exceeds_annual_savings"
    /\ InAnnual < 100
    /\ analysis.break_even_months > ca_in.new_plan_contract_months

\* C4: with no gate matching and no active contract the result is switch_now,
\* has_active_contract false, optimal date today, confidence 1.0, fee
\* reported as 0 and immediate_switch_savings = 12 x monthly savings.
C4_NoContractSwitchNow ==
    (Done /\ StatedGate = "none" /\ ~InActive) =>
        /\ analysis.switch_recommendation = "switch_now"
        /\ analysis.has_active_contract = FALSE
        /\ analysis.optimal_switch_date = ca_in.today
        /\ analysis.confidence_score = 100
        /\ analysis.early_termination_fee = 0
        /\ analysis.immediate_switch_savings
              = 12 * (ca_in.current_plan_monthly_cost
                        - ca_in.new_plan_monthly_cost)

\* an expired contract with a fee of 150, 100 -> 80 per month: saves 240
C4_Witness ==
    /\ Done
    /\ StatedGate = "none"
    /\ ca_in.current_contract_end # NoneVal
    /\ ca_in.current_contract_end <= ca_in.today
    /\ ca_in.early_termination_fee = 150
    /\ ca_in.current_plan_monthly_cost = 100
    /\ ca_in.new_plan_monthly_cost = 80
    /\ analysis.immediate_switch_savings = 240
    /\ analysis.switch_recommendation = "switch_now"

\* C5: with no gate matching and an active contract, months_remaining =
\* days // 30 and immediate_switch_savings = current x months - new x months
\* - ETF; positive savings give switch_soon within 30 days of the contract
\* end and switch_now otherwise, non-positive savings give
\* wait_for_contract_end with the contract end as optimal date.
C5_ActiveContractDecision ==
    (Done /\ StatedGate = "none" /\ InActive) =>
        LET months == InDays \div 30
            savings == ca_in.current_plan_monthly_cost * months
                         - ca_in.new_plan_monthly_cost * months - InFee
        IN  /\ analysis.immediate_switch_savings = savings
            /\ savings > 0 =>
                  analysis.switch_recommendation =
                      IF InDays <= 30 THEN "switch_soon" ELSE "switch_now"
            /\ savings <= 0 =>
                  /\ analysis.switch_recommendation = "wait_for_contract_end"
                  /\ analysis.optimal_switch_date = ca_in.current_contract_end

\* 180 days left, ETF 100, 150 -> 100 per month: saves 200, switch_now
C5_Witness ==
    /\ Done
    /\ InDays = 180
    /\ InFee = 100
    /\ ca_in.current_plan_monthly_cost = 150
    /\ ca_in.new_plan_monthly_cost = 100
    /\ analysis.immediate_switch_savings = 200
    /\ analysis.switch_recommendation = "switch_now"

\* C6: for every call with an active contract the reported
\* immediate_switch_savings equals remaining_contract_cost -
\* new_plan_cost_same_period - early_termination_fee.
C6_SignInvariant ==
    (Done /\ InActive) =>
        analysis.immediate_switch_savings =
            analysis.remaining_contract_cost
                - analysis.new_plan_cost_same_period
                - analysis.early_termination_fee

\* C7: break_even_months is floor(ETF / monthly_savings) + 1 whenever
\* monthly_savings > 0 and null whenever monthly_savings <= 0.
C7_BreakEvenFloor ==
    Done =>
        /\ InMonthly > 0 =>
              analysis.break_even_months = (InFee \div InMonthly) + 1
        /\ InMonthly <= 0 => analysis.break_even_months = NoneVal

----------------------------------------------------------------------------
(* Properties of score_plans (checked under SpecScore) *)

ScoreDone == scored.status = "done"
ScoredIndex == 1..Len(scored.plans)
InCosts == CalculateAllCosts(sc_in.usage_data, sc_in.plans)
InPlanSet == Range(sc_in.plans)
IsScore01(x) == 0 <= x /\ x <= 10000

\* C8: every component score of every scored plan lies in [0,1], and a
\* criterion on which all plans of the set have the same value scores 1.0
\* for every plan.
C8_NormalizationBounds ==
    ScoreDone =>
        \A i \in ScoredIndex :
            LET s == scored.plans[i]
            IN  /\ IsScore01(s.cost_score)
                /\ IsScore01(s.flexibility_score)
                /\ IsScore01(s.renewable_score)
                /\ IsScore01(s.rating_score)
                /\ (\A p, q \in InPlanSet :
                        InCosts[p.id].annual_cost = InCosts[q.id].annual_cost)
                      => s.cost_score = 10000
                /\ (\A p, q \in InPlanSet :
                        p.contract_length_months = q.contract_length_months)
                      => s.flexibility_score = 10000
                /\ (\A p, q \in InPlanSet :
                        p.renewable_percentage = q.renewable_percentage)
                      => s.renewable_score = 10000
                /\ (\A p, q \in InPlanSet : p.rating = q.rating)
                      => s.rating_score = 10000

\* the weight the specification applies: 0.25 only for an unset weight
StatedWeight(w) == IF w = NoneVal THEN 25 ELSE w

\* C9: overall_score is the 4-place rounding of the weighted sum of the four
\* scores under the weights as supplied (0 stays 0, only an unset weight is
\* 0.25), and lies in [0,1] when the supplied weights sum to 1.
C9_WeightedOverall ==
    ScoreDone =>
        \A i \in ScoredIndex :
            LET s == scored.plans[i]
                pr == sc_in.preferences
                c == ComponentScores(s.plan, sc_in.plans, InCosts)
                wc == StatedWeight(pr.cost_savings_weight)
                wf == StatedWeight(pr.flexibility_weight)
                wr == StatedWeight(pr.renewable_weight)
                wt == StatedWeight(pr.supplier_rating_weight)
            IN  /\ s.overall_score =
                      WeightedSum4(wc, wf, wr, wt, c.cost_score,
                                   c.flexibility_score, c.renewable_score,
                                   c.rating_score)
                /\ wc + wf + wr + wt = 100 => IsScore01(s.overall_score)

\* the rating the specification normalizes: a missing rating counts as 3.0
StatedRating(plan) == IF plan.rating = NoneVal THEN 300 ELSE plan.rating

\* C10: renewable_score = renewable / max renewable of the set (over 100 when
\* every plan has 0%), and rating_score = r / max r of the set with a missing
\* rating counted as 3.0 in r and in the maximum (over 5 when no plan of the
\* set has a rating).
C10_ForwardDenominators ==
    ScoreDone =>
        \A i \in ScoredIndex :
            LET s == scored.plans[i]
                max_renewable ==
                    MaxOf({p.renewable_percentage : p \in InPlanSet})
                max_rated == MaxOf({StatedRating(p) : p \in InPlanSet})
                none_rated == \A p \in InPlanSet : p.rating = NoneVal
            IN  /\ s.renewable_score =
                      Round4(Frac(s.plan.renewable_percentage,
                                  IF max_renewable > 0 THEN max_renewable
                                  ELSE 100))
                /\ s.rating_score =
                      Round4(Frac(StatedRating(s.plan),
                                  IF none_rated THEN 500 ELSE max_rated))

----------------------------------------------------------------------------
(* Properties of generate_recommendations (checked under Spec) *)

RunDone == run.status = "done"
Recs == run.response.recommendations
Filtered == run.response.filtered_plans
Eligible == run.eligible_plans

\* the three hard constraints as the specification states them
MeetsRenewable(plan, preferences) ==
    plan.renewable_percentage >= preferences.min_renewable_percentage
MeetsContract(plan, preferences) ==
    preferences.max_contract_months # NoneVal
        => plan.contract_length_months <= preferences.max_contract_months
MeetsRateType(plan, preferences) ==
    ~(preferences.avoid_variable_rates
        /\ plan.rate_type \in {"variable", "indexed"})
MeetsAll(plan, preferences) ==
    /\ MeetsRenewable(plan, preferences)
    /\ MeetsContract(plan, preferences)
    /\ MeetsRateType(plan, preferences)
FirstFailing(plan, preferences) ==
    IF ~MeetsRenewable(plan, preferences) THEN "LOW_RENEWABLE"
    ELSE IF ~MeetsContract(plan, preferences) THEN "LONG_CONTRACT"
    ELSE "VARIABLE_RATE"

\* C1: the filter partitions the catalog: a plan is eligible iff it meets the
\* three constraints; any other plan is in the filtered list exactly once
\* with the code of its first failing constraint (LOW_RENEWABLE, then
\* LONG_CONTRACT, then VARIABLE_RATE); no plan is in both lists or in neither.
C1_FilterPartition ==
    RunDone =>
        \A i \in 1..Len(run.plans) :
            LET p == run.plans[i]
                in_eligible == {j \in 1..Len(Eligible) : Eligible[j].id = p.id}
                in_filtered == {j \in 1..Len(Filtered) : Filtered[j].plan_id = p.id}
            IN  /\ MeetsAll(p, req.preferences) <=> in_eligible # {}
                /\ Cardinality(in_eligible) + Cardinality(in_filtered) = 1
                /\ \A j \in in_eligible : Eligible[j] = p
                /\ \A j \in in_filtered :
                      Filtered[j].filter_code = FirstFailing(p, req.preferences)

\* a catalog where one plan fails renewable and contract length and is
\* recorded as LOW_RENEWABLE, another fails contract length and rate type and
\* is recorded as LONG_CONTRACT, and a third plan is eligible
C1_Witness ==
    /\ RunDone
    /\ Eligible # <<>>
    /\ \E j \in 1..Len(Filtered) : \E p \in Range(run.plans) :
          /\ Filtered[j] = [plan_id |-> p.id, filter_code |-> "LOW_RENEWABLE"]
          /\ ~MeetsContract(p, req.preferences)
    /\ \E j \in 1..Len(Filtered) : \E p \in Range(run.plans) :
          /\ Filtered[j] = [plan_id |-> p.id, filter_code |-> "LONG_CONTRACT"]
          /\ ~MeetsRateType(p, req.preferences)

\* C2: there are N = min(3, eligible plans) recommendations, each an eligible
\* plan with the score score_plans gave it, no plan twice, ranks 1..N,
\* overall_score non-increasing with rank, and no eligible plan left out
\* scores strictly higher than a recommended one.
C2_TopThree ==
    RunDone =>
        LET N == IF Len(Eligible) < 3 THEN Len(Eligible) ELSE 3
            sp == run.scored_plans
        IN  /\ Len(Recs) = N
            /\ \A i \in 1..N :
                  /\ Recs[i].rank = i
                  /\ \E j \in 1..Len(Eligible) : Eligible[j] = Recs[i].plan
                  /\ \E k \in 1..Len(sp) :
                        /\ sp[k].plan_id = Recs[i].plan.id
                        /\ sp[k].overall_score = Recs[i].overall_score
            /\ \A i, j \in 1..N : i # j => Recs[i].plan.id # Recs[j].plan.id
            /\ \A i \in 1..N - 1 :
                  Recs[i].overall_score >= Recs[i + 1].overall_score
            /\ \A k \in 1..Len(sp) :
                  (\A i \in 1..N : Recs[i].plan.id # sp[k].plan_id)
                      => \A i \in 1..N :
                            sp[k].overall_score <= Recs[i].overall_score

\* four eligible plans with the best one last in catalog order: it is ranked
\* first and the plan left out scores strictly below the third
C2_Witness ==
    /\ RunDone
    /\ Len(Eligible) = 4
    /\ Len(Recs) = 3
    /\ Recs[1].plan = Eligible[4]
    /\ Recs[1].overall_score > Recs[2].overall_score
    /\ \E k \in 1..4 :
          /\ \A i \in 1..3 : Recs[i].plan.id # run.scored_plans[k].plan_id
          /\ run.scored_plans[k].overall_score < Recs[3].overall_score

\* Recs[i] comes before Recs[j] in the order the specification states:
\* higher overall_score, then lower projected_annual_cost, then lower plan id
StatedBefore(a, b) ==
    \/ a.overall_score > b.overall_score
    \/ /\ a.overall_score = b.overall_score
       /\ \/ a.projected_annual_cost < b.projected_annual_cost
          \/ /\ a.projected_annual_cost = b.projected_annual_cost
             /\ a.id < b.id

\* C11: the recommendations are ordered by overall_score descending, ties
\* broken by lower projected_annual_cost and then by plan id, and every
\* eligible plan left out comes after the last recommendation in that order
\* (so ranks do not depend on the order of the catalog).
C11_TieBreak ==
    RunDone =>
        /\ \A i, j \in 1..Len(Recs) : i < j => StatedBefore(Recs[i], Recs[j])
        /\ \A k \in 1..Len(run.scored_plans) :
              LET sp == run.scored_plans[k]
                  left ==
                      [overall_score |-> sp.overall_score,
                       projected_annual_cost |->
                           CalculateAnnualCost(req.customer.usage_data, sp.plan),
                       id |-> sp.plan_id]
              IN  (\A i \in 1..Len(Recs) : Recs[i].id # sp.plan_id)
                      => \A i \in 1..Len(Recs) : StatedBefore(Recs[i], left)

----------------------------------------------------------------------------
(* Properties of the cost calculator (checked under SpecCost) *)

AnnualDone == cc_out.annual.status = "done"
SavingsDone == cc_out.savings.status = "done"
Abs(x) == IF x < 0 THEN -x ELSE x

\* 10 * months * (K x rate_per_kwh + 12 x monthly_fee) in cents, K as stated:
\* the sum for 12 or more months, (sum / months) x 12 for fewer
StatedCostTimes(usage_data, plan) ==
    LET months == Len(usage_data)
        total == SeqSum(usage_data)
    IN  IF months >= 12
        THEN months * (total * plan.rate_per_kwh + 120 * plan.monthly_fee)
        ELSE total * 12 * plan.rate_per_kwh + 120 * plan.monthly_fee * months

\* C13: calculate_annual_cost is K x rate + 12 x fee rounded to cents (at
\* most half a cent from the exact value); 0.00 without usage records; a
\* 12-month series with the same monthly average as the shorter series
\* costs the same within a cent; 12 x 1000 kWh at 0.10 and 10.00 per month
\* is 1320.00.
C13_AnnualCost ==
    AnnualDone =>
        LET usage == cc_in.usage_data
            plan == cc_in.plan
            annual_cost == cc_out.annual.annual_cost
        IN  /\ usage = <<>> => annual_cost = 0
            /\ usage # <<>> =>
                  2 * Abs(10 * Len(usage) * annual_cost
                            - StatedCostTimes(usage, plan)) <= 10 * Len(usage)
            /\ (usage # <<>> /\ Len(usage) < 12) =>
                  \A full \in CostUsage :
                      (Len(full) = 12
                         /\ SeqSum(full) * Len(usage) = SeqSum(usage) * 12)
                      => Abs(CalculateAnnualCost(full, plan) - annual_cost) <= 1
            /\ (usage = [i \in 1..12 |-> 1000] /\ plan.rate_per_kwh = 100
                  /\ plan.monthly_fee = 1000) => annual_cost = 132000

\* six months of 1000 kWh at 0.10 / kWh and 10.00 per month: annualized to
\* 12000 kWh, 1320.00 like the 12-month series
C13_Witness ==
    /\ AnnualDone
    /\ cc_in.usage_data = [i \in 1..6 |-> 1000]
    /\ cc_in.plan = [rate_per_kwh |-> 100, monthly_fee |-> 1000]
    /\ cc_out.annual.annual_cost = 132000
    /\ CalculateAnnualCost([i \in 1..12 |-> 1000], cc_in.plan) = 132000

\* C14: calculate_savings returns annual = current - new, first-year net =
\* annual - switching, five-year = 5 x annual - switching, is_beneficial iff
\* first-year net > 0, and break_even_months = floor(switching / (annual /
\* 12)) exactly when switching > 0 and annual > 0, null otherwise.
C14_Savings ==
    SavingsDone =>
        LET r == cc_out.savings.result
            annual == cc_in.current_cost - cc_in.new_cost
            switching == cc_in.switching_cost
        IN  /\ r.annual_savings = annual
            /\ r.first_year_net_savings = annual - switching
            /\ r.five_year_savings = 5 * annual - switching
            /\ r.is_beneficial = (annual - switching > 0)
            /\ r.break_even_months =
                  IF switching > 0 /\ annual > 0
                  THEN (12 * switching) \div annual
                  ELSE NoneVal

----------------------------------------------------------------------------
(* Further properties of generate_recommendations (checked under Spec) *)

NoPlanEligible ==
    \A i \in 1..Len(req.plans) : ~MeetsAll(req.plans[i], req.preferences)

\* C15: when the filter leaves no eligible plan (an empty catalog included)
\* generate_recommendations returns normally with zero recommendations,
\* best_savings 0 and at least one warning.
C15_EmptyEligible ==
    (run # Idle /\ NoPlanEligible) =>
        /\ run.status = "done"
        /\ Eligible = <<>>
        /\ Recs = <<>>
        /\ run.response.best_savings = 0
        /\ run.response.warnings # <<>>

\* a customer with 12 months of usage and a catalog of plans that are all
\* filtered out: no recommendation, the few-plans warning is raised
C15_Witness ==
    /\ RunDone
    /\ Len(req.customer.usage_data) = 12
    /\ Len(req.plans) >= 2
    /\ Len(Filtered) = Len(req.plans)
    /\ Recs = <<>>
    /\ run.response.warnings = <<"few_plans", "mostly_filtered">>

\* the customer's contract has ended: an end date that is today or earlier
ContractEnded ==
    /\ req.customer.contract_end_date # NoneVal
    /\ req.customer.contract_end_date <= Today

\* C19: switching_cost of every recommendation is the customer's
\* early_termination_fee, but 0 when switching analysis is disabled, when
\* the customer has no fee or when the contract has ended; all
\* recommendations carry the same switching_cost, and net_first_year_savings
\* = projected_annual_savings - switching_cost.
C19_SwitchingCost ==
    RunDone =>
        LET fee == req.customer.early_termination_fee
            stated == IF \/ ~req.include_switching_analysis
                         \/ fee = NoneVal
                         \/ ContractEnded
                      THEN 0 ELSE fee
        IN  \A i \in 1..Len(Recs) :
                /\ Recs[i].switching_cost = stated
                /\ Recs[i].net_first_year_savings =
                      Recs[i].projected_annual_savings - stated

\* a customer with a fee of 150.00 and 60 days of contract left gets three
\* recommendations that all carry the fee
C19_Witness ==
    /\ RunDone
    /\ req.include_switching_analysis
    /\ req.customer.early_termination_fee = 15000
    /\ req.customer.contract_end_date = Today + 60
    /\ Len(Recs) = 3
    /\ \A i \in 1..3 :
          /\ Recs[i].switching_cost = 15000
          /\ Recs[i].net_first_year_savings =
                Recs[i].projected_annual_savings - 15000

----------------------------------------------------------------------------
(* Properties of the endpoints (checked under SpecService).  Every request  *)
(* that changes db also sets last, so while last shows a request, db is as  *)
(* that request left it.                                                    *)

\* the last request was a recommendation request that passed the endpoint's
\* checks and met no Redis failure
GenerateServed ==
    /\ last # Idle
    /\ last.op = "generate"
    /\ last.status \notin {404, 400}
    /\ ~last.cache_failed

StatedDefaultWeights ==
    [cost |-> 40, flexibility |-> 20, renewable |-> 20, rating |-> 20]

\* C12: the effective preferences of a recommendation request are the
\* request's override when given, else the customer's stored preferences
\* when they exist, else the defaults: the request succeeds, no plan is
\* filtered out and every plan is scored with the weights 0.40 / 0.20 /
\* 0.20 / 0.20.
C12_EffectivePreferences ==
    GenerateServed =>
        LET stored == db.preferences[last.customer_id]
        IN  /\ last.status = 200
            /\ last.override # Nothing => last.preferences = last.override
            /\ (last.override = Nothing /\ stored # Nothing) =>
                   last.preferences = stored
            /\ (last.override = Nothing /\ stored = Nothing) =>
                   /\ last.run.response.filtered_plans = <<>>
                   /\ Len(last.run.scored_plans) = Len(last.run.plans)
                   /\ \A i \in 1..Len(last.run.scored_plans) :
                         last.run.scored_plans[i].weights_applied =
                             StatedDefaultWeights

\* C16: a recommendation request during which a cache operation fails still
\* returns the recommendation set computed from the store.
C16_CacheFailureNotPropagated ==
    (last # Idle /\ last.op = "generate" /\ last.cache_failed) =>
        LET customer == db.customers[last.customer_id]
        IN  /\ last.status = 200
            /\ \E catalog \in OrderedByRate(db.plans) :
                  last.run.response =
                      GenerateRecommendations(customer, last.preferences,
                          catalog, last.include_switching_analysis,
                          db.plans, Today).response

\* a step that changes the stored preferences of a customer who stays, or
\* the plan catalog while the customer stays
PreferencesChange(c) ==
    /\ db.customers[c] # Nothing /\ db'.customers[c] # Nothing
    /\ db'.preferences[c] # db.preferences[c]

CatalogChange(c) ==
    /\ db.customers[c] # Nothing /\ db'.customers[c] # Nothing
    /\ db'.plans # db.plans

\* a recommendation request that was served
GenerateStep ==
    last' # last /\ last'.op = "generate"

\* C17: a step that creates, updates or deletes a customer's stored
\* preferences, or changes the plan catalog, leaves no recommendation set
\* cached for an affected customer, so that get_cached_recommendations
\* cannot return a set generated before the change; and a successful
\* recommendation request works on the catalog as it is stored.
C17_Invalidation ==
    [][ /\ \A c \in CustomerIds :
              (PreferencesChange(c) \/ CatalogChange(c)) =>
                  cache'.recommendations[c] = Nothing
        /\ (GenerateStep /\ last'.status = 200) =>
              {last'.run.plans[i].id : i \in 1..Len(last'.run.plans)} =
                  {q.id : q \in db.plans} ]_vars

\* C18: a recommendation request for an unknown customer is answered 404,
\* one for a customer with fewer than 3 usage records 400; in both cases
\* no recommendation is computed and recommendations:{customer_id} is not
\* written.
C18_RejectedBeforeService ==
    [][ GenerateStep =>
          LET c == last'.customer_id
              customer == db.customers[c]
              NotServed == /\ last'.run = Nothing
                           /\ cache'.recommendations[c] = cache.recommendations[c]
          IN  /\ customer = Nothing => (last'.status = 404 /\ NotServed)
              /\ (customer # Nothing /\ Len(customer.usage_data) < 3) =>
                     (last'.status = 400 /\ NotServed) ]_vars

C18_Witness ==
    /\ last # Idle
    /\ last.op = "generate"
    /\ last.status = 400
    /\ db.customers[last.customer_id] # Nothing
    /\ Len(db.customers[last.customer_id].usage_data) < 3
    /\ last.run = Nothing
    /\ cache.recommendations[last.customer_id] = Nothing

\* C20: after a successful delete_customer nothing of the customer remains
\* stored: no customer row with its usage records, no stored preferences
\* and no recommendation set under recommendations:{customer_id}.
C20_DeleteRemovesAll ==
    (last # Idle /\ last.op = "delete_customer" /\ last.status = 204) =>
        /\ db.customers[last.customer_id] = Nothing
        /\ db.preferences[last.customer_id] = Nothing
        /\ cache.recommendations[last.customer_id] = Nothing

----------------------------------------------------------------------------
(* Properties of get_switching_windows (checked under SpecContract) *)

\* C21: get_switching_windows returns today and contract_end unchanged; for
\* a contract end after today optimal_notice_date is the later of today and
\* contract_end - 60 days and final_switch_date is contract_end - 7 days;
\* otherwise both dates are None.
C21_SwitchingWindows ==
    windows # Idle =>
        LET e == ca_in.current_contract_end
            t == ca_in.today
        IN  /\ windows.today = t
            /\ windows.contract_end = e
            /\ IF e # NoneVal /\ e > t
               THEN /\ windows.optimal_notice_date = MaxOf({t, e - 60})
                    /\ windows.final_switch_date = e - 7
               ELSE /\ windows.optimal_notice_date = NoneVal
                    /\ windows.final_switch_date = NoneVal

C21_Witness ==
    /\ windows # Idle
    /\ ca_in.current_contract_end > ca_in.today
    /\ ca_in.current_contract_end - 60 < ca_in.today
    /\ windows.optimal_notice_date = ca_in.today
    /\ windows.final_switch_date < ca_in.today

----------------------------------------------------------------------------
(* Properties of parse_csv and parse_json (checked under SpecIngest) *)

\* a date text that names a date, and a quantity that is a number >= 0
StatedDate(v) == v \in {Text("2024-01-01"), Text("03/01/2024")}

StatedQuantity(v) ==
    v \in {Text("950"), Text("0"), Text("2,850"), Num(950), Num(0)}

\* the data rows of the payload, as pairs of values, when rows are read at
\* all (a CSV needs its date and usage columns)
DataRows ==
    IF ing.source = "json"
    THEN [i \in 1..Len(ing.data) |->
             [date |-> ing.data[i].date, kwh |-> ing.data[i].kwh,
              cells |-> 2]]
    ELSE [i \in 1..Len(ing.rows) |->
             [date |-> Text(ing.rows[i][1]),
              kwh |-> IF Len(ing.rows[i]) >= 2 THEN Text(ing.rows[i][2])
                      ELSE Null,
              cells |-> Len(ing.rows[i])]]

WellFormed(row) ==
    row.cells = 2 /\ StatedDate(row.date) /\ StatedQuantity(row.kwh)

RowsAreRead ==
    \/ ing.source = "json"
    \/ ing.source = "csv" /\ ing.header \in {<<"date", "kwh">>, <<"Date", " kWh ">>, <<"month", "consumption">>}

\* C22: every data row is handled on its own: a well-formed row (a date and
\* a quantity >= 0, 0 included) gives one usage record, any other row one
\* error, whatever rows precede it; records_processed + records_failed is
\* the number of data rows and success is records_processed > 0.
C22_RowsIndependent ==
    (ing # Idle /\ ing.out # Idle /\ RowsAreRead) =>
        LET good == {i \in 1..Len(DataRows) : WellFormed(DataRows[i])}
        IN  /\ ing.out.status = "returned"
            /\ Len(ing.out.usage_records) = Cardinality(good)
            /\ ing.out.result.records_processed = Cardinality(good)
            /\ ing.out.result.records_failed =
                   Len(DataRows) - Cardinality(good)
            /\ ing.out.result.success = (Cardinality(good) > 0)

----------------------------------------------------------------------------
(* Monotonicity of calculate_annual_cost (checked under SpecCost) *)

\* plans that differ from the plan of the call in one column only, which is
\* not lower
RaisedRate(plan) ==
    {q \in CostPlans : q.monthly_fee = plan.monthly_fee
                          /\ q.rate_per_kwh >= plan.rate_per_kwh}

RaisedFee(plan) ==
    {q \in CostPlans : q.rate_per_kwh = plan.rate_per_kwh
                          /\ q.monthly_fee >= plan.monthly_fee}

\* C23: for a fixed usage series the rounded annual cost does not fall when
\* rate_per_kwh rises with monthly_fee fixed, nor when monthly_fee rises with
\* rate_per_kwh fixed.
C23_CostMonotone ==
    AnnualDone =>
        \A q \in RaisedRate(cc_in.plan) \cup RaisedFee(cc_in.plan) :
            cc_out.annual.annual_cost
                <= CalculateAnnualCost(cc_in.usage_data, q)

\* a series shorter than a year whose cost is a rounded half cent, with a
\* dearer rate and a dearer fee to compare with
C23_Witness ==
    /\ AnnualDone
    /\ Len(cc_in.usage_data) \in 1..11
    /\ (SeqSum(cc_in.usage_data) * 12 * cc_in.plan.rate_per_kwh)
           % (10 * Len(cc_in.usage_data)) # 0
    /\ \E q \in RaisedRate(cc_in.plan) :
           cc_out.annual.annual_cost
               < CalculateAnnualCost(cc_in.usage_data, q)
    /\ \E q \in RaisedFee(cc_in.plan) :
           cc_out.annual.annual_cost
               < CalculateAnnualCost(cc_in.usage_data, q)

----------------------------------------------------------------------------
(* The catalog snapshot of one generate call (checked under SpecGenerate) *)

CallDone(c) == gen.calls[c].pc = "done"
Ids(plans) == {plans[i].id : i \in 1..Len(plans)}
FilteredIds(c) ==
    {gen.calls[c].run.response.filtered_plans[i].plan_id :
        i \in 1..Len(gen.calls[c].run.response.filtered_plans)}

\* C24: a call fetches the catalog once, before its filter stage, and its
\* result is built from that snapshot whatever happens to the catalog and
\* the cache meanwhile: eligible and filtered plans together are the
\* snapshot, and every recommendation is a plan of the snapshot with the
\* annual cost of that plan.
C24_OneSnapshot ==
    \A c \in Calls :
        LET call == gen.calls[c]
        IN  /\ call.fetched =
                   IF call.pc \in {"idle", "get plans:all", "select plans"}
                   THEN 0 ELSE 1
            /\ CallDone(c) =>
                   /\ Ids(call.run.eligible_plans) \cup FilteredIds(c)
                          = Ids(call.plans)
                   /\ Ids(call.run.eligible_plans) \cap FilteredIds(c) = {}
                   /\ Range(call.run.eligible_plans) \subseteq Range(call.plans)
                   /\ \A i \in 1..Len(call.run.response.recommendations) :
                          LET r == call.run.response.recommendations[i]
                          IN  \E q \in Range(call.plans) :
                                 /\ r.plan = EnergyPlanResponse(q)
                                 /\ r.projected_annual_cost =
                                        CalculateAnnualCost(
                                            call.customer.usage_data, q)

\* two finished calls with different snapshots, one taken from the cache
\* and one from the database, and a catalog that has changed since: a plan
\* of the database is in neither result
C24_Witness ==
    \E c, d \in Calls :
        /\ CallDone(c) /\ CallDone(d)
        /\ Ids(gen.calls[c].plans) # Ids(gen.calls[d].plans)
        /\ gen.calls[c].run.response.recommendations # <<>>
        /\ gen.calls[d].run.response.recommendations # <<>>
        /\ gen.calls[c].run.response.filtered_plans # <<>>
        /\ \E q \in gen.plans :
               q.id \notin Ids(gen.calls[c].plans)

----------------------------------------------------------------------------
(* The rate limit (checked under SpecRateLimit) *)

\* the requests let through in the w seconds that end at time t
PassedIn(t, w) == {ts \in rl.passed : t - w < ts /\ ts <= t}

\* C25: whatever the interleaving, no window of 60 seconds holds more than
\* requests_per_minute requests that were let through and no window of
\* 3600 seconds more than requests_per_hour; a rejected request is in none
\* of the stores.
C25_RateLimit ==
    /\ \A t \in 1..MaxTime :
           /\ Cardinality(PassedIn(t, 60)) <= RequestsPerMinute
           /\ Cardinality(PassedIn(t, 3600)) <= RequestsPerHour
    /\ \A r \in Requests :
           rl.requests[r].pc = "rejected" =>
               /\ rl.requests[r].now \notin rl.minute \cup rl.hour
               /\ \A i \in Instances :
                      rl.requests[r].now \notin Range(rl.memory[i])

----------------------------------------------------------------------------
(* Properties of the usage analysis (checked under SpecUsage) *)

GapsDone == ua.gaps.status = "done"
AnalyzeDone == ua.analysis.status = "done"

\* the months of the records, counted from year 0
MonthNumbers == {12 * ua.usage_data[i].year + ua.usage_data[i].month :
                    i \in 1..Len(ua.usage_data)}

\* the records after which the next record is more than a month later
GapSteps ==
    {m \in MonthNumbers :
        /\ m + 1 \notin MonthNumbers
        /\ \E later \in MonthNumbers : later > m}

\* C26: for records of distinct months in any order, has_gaps holds exactly
\* when two records next to each other in date order are more than a month
\* apart; gap_months has, for each such pair, the month that follows the
\* earlier record, and the list is sorted.
C26_GapDetection ==
    GapsDone =>
        LET gap_months == ua.gaps.result.gap_months
        IN  /\ ua.gaps.result.has_gaps = (GapSteps # {})
            /\ Len(gap_months) = Cardinality(GapSteps)
            /\ Range(gap_months) = {(m % 12) + 1 : m \in GapSteps}
            /\ \A i, j \in 1..Len(gap_months) :
                   i < j => gap_months[i] <= gap_months[j]

HighTiers == {"high", "very_high"}

\* C27 as stated: for a non-empty series, is_high_consumer holds exactly
\* when consumption_tier is high or very_high.
C27_HighIffTier ==
    (AnalyzeDone /\ ua.usage_data # <<>>) =>
        (ua.analysis.result.is_high_consumer
            <=> ua.analysis.result.consumption_tier \in HighTiers)

\* C27 amended: both fields come from the one annualized usage
\* (sum / months) x 12 with tiers <6000 low, <10500 medium, <15000 high,
\* else very_high and is_high_consumer = annualized > 10500; they agree
\* except at exactly 10500 kWh, where the tier is high and is_high_consumer
\* is false.
C27_HighAndTier ==
    (AnalyzeDone /\ ua.usage_data # <<>>) =>
        LET result == ua.analysis.result
            total == SeqSum([i \in 1..Len(ua.usage_data) |->
                                ua.usage_data[i].kwh_usage])
            months == Len(ua.usage_data)
            \* total / months * 12 compared with a number of kWh
            Below(kwh) == total * 12 < kwh * months
        IN  /\ result.consumption_tier =
                   IF Below(6000) THEN "low"
                   ELSE IF Below(10500) THEN "medium"
                   ELSE IF Below(15000) THEN "high"
                   ELSE "very_high"
            /\ result.is_high_consumer = (total * 12 > 10500 * months)
            /\ result.is_high_consumer =>
                   result.consumption_tier \in HighTiers
            /\ (/\ result.consumption_tier \in HighTiers
                /\ total * 12 # 10500 * months) =>
                   result.is_high_consumer

\* an annualized usage of exactly 10500 kWh from unequal months: tier high,
\* not a high consumer
C27_Witness ==
    /\ AnalyzeDone
    /\ Len(ua.usage_data) = 3
    /\ \E i, j \in 1..3 :
           ua.usage_data[i].kwh_usage # ua.usage_data[j].kwh_usage
    /\ ua.analysis.result.annual_estimate = AVERAGE_ANNUAL_KWH
    /\ ua.analysis.result.consumption_tier = "high"
    /\ ~ua.analysis.result.is_high_consumer

----------------------------------------------------------------------------
(* The early termination fee without an active contract (checked under     *)
(* SpecContract)                                                           *)

\* the outcome of the call with another early termination fee
WithFee(fee) ==
    AnalyzeSwitchTiming(ca_in.current_contract_end, fee,
                        ca_in.current_plan_monthly_cost,
                        ca_in.new_plan_monthly_cost,
                        ca_in.new_plan_contract_months, ca_in.today)

----------------------------------------------------------------------------
(* Active contracts that end within 30 days (checked under SpecContract) *)

\* C30: with an active contract of fewer than 30 days no month remains, so
\* the remaining costs are 0 and immediate_switch_savings is -ETF <= 0, and
\* the result is neither switch_now nor switch_soon; switch_soon is
\* returned only at exactly 30 days, and switch_now for an active contract
\* only at more than 30 days.
C30_UnderThirtyDays ==
    Done =>
        /\ (InActive /\ InDays < 30) =>
               /\ analysis.remaining_contract_cost = 0
               /\ analysis.new_plan_cost_same_period = 0
               /\ analysis.immediate_switch_savings = -InFee
               /\ analysis.immediate_switch_savings <= 0
               /\ analysis.switch_recommendation
                      \notin {"switch_now", "switch_soon"}
        /\ analysis.switch_recommendation = "switch_soon" =>
               InActive /\ InDays = 30
        /\ (analysis.switch_recommendation = "switch_now" /\ InActive) =>
               InDays > 30

----------------------------------------------------------------------------
(* The cost details of calculate_all_costs (checked under SpecCost) *)

AllCostsDone == cc_out.all.status = "done"

\* C29: for every plan of the result and any number of usage months (at
\* least one; fewer than, equal to or more than 12), the
\* breakdown total is the annual cost and is energy_cost + monthly_fees to
\* within one cent, the annual cost is annual_kwh_projected x rate_per_kwh
\* + 12 x monthly_fee, and all plans carry the same usage_stats.
C29_CostDetails ==
    (AllCostsDone /\ cc_in.usage_data # <<>>) =>
        LET costs == cc_out.all.costs
            plans == CostPlanList(cc_in.plan)
        IN  \A i \in 1..Len(plans) :
                LET plan == plans[i]
                    cost == costs[plan.id]
                IN  /\ cost.breakdown.total = cost.annual_cost
                    /\ Abs(cost.breakdown.total
                             - (cost.breakdown.energy_cost
                                  + cost.breakdown.monthly_fees)) <= 1
                    /\ cost.annual_cost =
                           RoundHalfEven(
                               cost.usage_stats.annual_kwh_projected
                                   * plan.rate_per_kwh
                                 + 12 * plan.monthly_fee * 10, 10)
                    /\ \A j \in 1..Len(plans) :
                           costs[plans[j].id].usage_stats = cost.usage_stats

====
